---- MODULE Spec2Model ----
(***************************************************************************)
(* A model of c2e: the parser of C declarations (lib/src/parser.rs), the   *)
(* explainer that turns a declaration into English (lib/src/explainer.rs)  *)
(* and the two front ends that call them (cli/src/main.rs, wasm/src/lib.rs)*)
(*                                                                         *)
(* An input line is a sequence of lexemes.  A lexeme is a maximal run of   *)
(* characters of one class: an identifier-like word, a run of digits, one  *)
(* punctuation character or a run of whitespace.  Positions are lexeme     *)
(* indices; byte offsets are recovered with Offset.  The text is ASCII:    *)
(* one character is one byte.                                              *)
(***************************************************************************)
EXTENDS Integers, Sequences, FiniteSets, TLC

----------------------------------------------------------------------------
(* Lexical layer *)

\* The characters .padded() skips: those of ASCII for which
\* char::is_whitespace holds, U+0009 to U+000D and the space (the vertical
\* tab U+000B has no escape and is written as it is).
WhitespaceChars == {" ", "\t", "\n", "", "\f", "\r"}

\* The value of a decimal digit.
DigitValue ==
    ("0" :> 0) @@ ("1" :> 1) @@ ("2" :> 2) @@ ("3" :> 3) @@ ("4" :> 4)
    @@ ("5" :> 5) @@ ("6" :> 6) @@ ("7" :> 7) @@ ("8" :> 8) @@ ("9" :> 9)

\* The characters an identifier starts with (the ASCII ones).
IdentStart ==
    {"a", "b", "c", "d", "e", "f", "g", "h", "i", "j", "k", "l", "m",
     "n", "o", "p", "q", "r", "s", "t", "u", "v", "w", "x", "y", "z",
     "A", "B", "C", "D", "E", "F", "G", "H", "I", "J", "K", "L", "M",
     "N", "O", "P", "Q", "R", "S", "T", "U", "V", "W", "X", "Y", "Z", "_"}

\* The characters an identifier goes on with.
IdentContinue == IdentStart \cup DOMAIN DigitValue

RECURSIVE AllIn(_, _)
\* Every character of the lexeme l is in the set S.
AllIn(l, S) == Len(l) = 0 \/ (Head(l) \in S /\ AllIn(Tail(l), S))

\* A run of whitespace.
IsWhitespace(l) == Len(l) > 0 /\ AllIn(l, WhitespaceChars)

\* What text::int(10) accepts: "0", or a run of digits that starts with
\* another digit than 0 (of a run with a leading zero int(10) reads the zero
\* alone: such a run is written as the lexeme "0" and the rest after it).
IsNumber(l) ==
    /\ Len(l) > 0 /\ AllIn(l, DOMAIN DigitValue)
    /\ (Len(l) = 1 \/ Head(l) # "0")

\* The decimal digits of a number lexeme.
NumberDigits(l) == [i \in 1..Len(l) |-> DigitValue[SubSeq(l, i, i)]]

\* What text::ident() accepts: a run starting with a letter or underscore,
\* of letters, digits and underscores.
IsWord(l) == Len(l) > 0 /\ Head(l) \in IdentStart /\ AllIn(l, IdentContinue)

\* The lexeme at position p, "" at the end of the input.
At(s, p) == IF p >= 1 /\ p <= Len(s) THEN s[p] ELSE ""

RECURSIVE Offset(_, _)
\* Byte offset of position p in the line s.
Offset(s, p) == IF p <= 1 THEN 0 ELSE Offset(s, p - 1) + Len(s[p - 1])

Max(a, b) == IF a >= b THEN a ELSE b

SetMax(S) == CHOOSE m \in S : \A n \in S : n <= m

----------------------------------------------------------------------------
(* Abstract syntax tree (lib/src/ast.rs) *)

None == <<>>
Some(x) == <<x>>

Primitive(n) == [k |-> "Primitive", name |-> n]
Record(kind, n) == [k |-> "Record", kind |-> kind, name |-> n]
Custom(n) == [k |-> "Custom", name |-> n]

QualifiedType(quals, ty) == [quals |-> quals, ty |-> ty]

Anonymous == [k |-> "Anonymous"]
Ident(n) == [k |-> "Ident", name |-> n]
Ptr(inner, quals) == [k |-> "Ptr", inner |-> inner, quals |-> quals]
Array(inner, size) == [k |-> "Array", inner |-> inner, size |-> size]
Function(func, params) == [k |-> "Function", func |-> func, params |-> params]

Declaration(base_type, declarator) ==
    [base_type |-> base_type, declarator |-> declarator]

RECURSIVE name(_)
\* Declarator::name: the identifier at the leaf of a declarator, if any.
name(d) ==
    CASE d.k = "Anonymous" -> None
      [] d.k = "Ident" -> Some(d.name)
      [] d.k = "Ptr" -> name(d.inner)
      [] d.k = "Array" -> name(d.inner)
      [] d.k = "Function" -> name(d.func)

----------------------------------------------------------------------------
(* Parser combinators as used by lib/src/parser.rs.  A result carries the  *)
(* position after the match, the value, and far: the furthest position at  *)
(* which a sub-parser failed (0 when none did).                            *)

Ok(pos, val, far) == [ok |-> TRUE, pos |-> pos, val |-> val, far |-> far]
Err(far) == [ok |-> FALSE, pos |-> 0, val |-> <<>>, far |-> far]

RECURSIVE skip_ws(_, _)
\* The whitespace skipped by .padded().
skip_ws(s, p) == IF IsWhitespace(At(s, p)) THEN skip_ws(s, p + 1) ELSE p

\* just(c).padded()
just_padded(s, p, c) ==
    LET q == skip_ws(s, p)
    IN  IF At(s, q) = c THEN Ok(skip_ws(s, q + 1), c, 0) ELSE Err(q)

\* keyword(kw).padded()
keyword_padded(s, p, kw) ==
    LET q == skip_ws(s, p)
    IN  IF At(s, q) = kw THEN Ok(skip_ws(s, q + 1), kw, 0) ELSE Err(q)

TypeQualifier ==
    ("const" :> "Const") @@ ("volatile" :> "Volatile") @@ ("restrict" :> "Restrict")

RECURSIVE qualifiers(_, _)
\* Zero or more padded qualifier keywords, collected into a set.
qualifiers(s, p) ==
    LET q == skip_ws(s, p)
    IN  IF At(s, q) \in DOMAIN TypeQualifier
        THEN LET rest == qualifiers(s, skip_ws(s, q + 1))
             IN  Ok(rest.pos, {TypeQualifier[s[q]]} \cup rest.val, rest.far)
        ELSE Ok(p, {}, q)

\* The spellings of primitive_type_parser, in the order of its choice().
PrimitiveSpellings == <<
    <<"unsigned", "long", "long", "int">>,
    <<"unsigned", "long", "long">>,
    <<"unsigned", "long", "int">>,
    <<"unsigned", "short", "int">>,
    <<"unsigned", "short">>,
    <<"unsigned", "long">>,
    <<"unsigned", "int">>,
    <<"unsigned", "char">>,
    <<"unsigned">>,
    <<"signed", "long", "long", "int">>,
    <<"signed", "long", "long">>,
    <<"signed", "long", "int">>,
    <<"signed", "long">>,
    <<"signed", "short", "int">>,
    <<"signed", "short">>,
    <<"signed", "char">>,
    <<"signed", "int">>,
    <<"signed">>,
    <<"long", "long", "int">>,
    <<"long", "double", "_Complex">>,
    <<"long", "double">>,
    <<"long", "long">>,
    <<"long", "int">>,
    <<"long">>,
    <<"short", "int">>,
    <<"short">>,
    <<"float", "_Complex">>,
    <<"float">>,
    <<"double", "_Complex">>,
    <<"double">>,
    <<"void">>,
    <<"char">>,
    <<"int">>,
    <<"_Bool">> >>

RECURSIVE stringify(_)
\* stringify!($first $($more)*): the words joined by single spaces.
stringify(words) ==
    IF Len(words) = 1 THEN words[1]
    ELSE words[1] \o " " \o stringify(Tail(words))

RECURSIVE keyword_sequence(_, _, _, _)
\* keyword(w1).padded().then(keyword(w2).padded())...
keyword_sequence(s, p, words, i) ==
    IF i > Len(words) THEN Ok(p, stringify(words), 0)
    ELSE LET r == keyword_padded(s, p, words[i])
         IN  IF r.ok THEN keyword_sequence(s, r.pos, words, i + 1) ELSE r

\* The alternative choice() settles on: the first, in source order, that
\* matched; 0 when none did.
first_ok(matching) ==
    IF matching = {} THEN 0
    ELSE CHOOSE i \in matching : \A j \in matching : i <= j

\* The result of choice(): that of the first alternative that matched, or a
\* failure at the furthest position an alternative got to.
choice_result(tried, first) ==
    IF first = 0
    THEN Err(SetMax({tried[i].far : i \in DOMAIN tried} \cup {0}))
    ELSE Ok(tried[first].pos, tried[first].val,
            SetMax({tried[i].far : i \in 1..first}))

\* choice((a, b, ...)), given the results of the alternatives at one position.
choice(tried) == choice_result(tried, first_ok({i \in DOMAIN tried : tried[i].ok}))

\* gen_choices with the spellings tried from the last of the list to the
\* first.
gen_choices_reversed(s, p) ==
    choice([i \in DOMAIN PrimitiveSpellings |->
                keyword_sequence(s, p,
                    PrimitiveSpellings[Len(PrimitiveSpellings) + 1 - i], 1)])

\* choice(...) over the spellings of the primitive types.
gen_choices(s, p) ==
    choice([i \in DOMAIN PrimitiveSpellings |->
                keyword_sequence(s, p, PrimitiveSpellings[i], 1)])

\* The whitespace .padded() skips after a match.
padded(s, r) == IF r.ok THEN Ok(skip_ws(s, r.pos), r.val, r.far) ELSE r

primitive_type_parser(s, p) == padded(s, gen_choices(s, skip_ws(s, p)))

RecordKind == {"struct", "union", "enum"}

\* choice([keyword("struct"), ...]).then(ident().padded())
record_type(s, p) ==
    IF At(s, p) \in RecordKind
    THEN LET q == skip_ws(s, p + 1)
         IN  IF IsWord(At(s, q))
             THEN Ok(skip_ws(s, q + 1), Record(s[p], s[q]), 0)
             ELSE Err(q)
    ELSE Err(p)

\* is_custom_type without the lookup: every identifier passes for a type.
is_custom_type_any(st, ident) == TRUE

\* state.custom_types.iter().any(|ty| ty == ident)
is_custom_type(st, ident) == \E i \in 1..Len(st) : st[i] = ident

\* ident().padded().try_map_with(...): a registered name is a Type::Custom,
\* any other identifier is an error raised at the identifier.
custom_type(s, p, st) ==
    IF IsWord(At(s, p))
    THEN IF is_custom_type(st, s[p])
         THEN Ok(skip_ws(s, p + 1), Custom(s[p]), 0)
         ELSE Err(p)
    ELSE Err(p)

\* primitive_type_parser().map(Type::Primitive)
map_primitive(r) == IF r.ok THEN Ok(r.pos, Primitive(r.val), r.far) ELSE r

\* choice((primitive, record, custom))
r_type(s, p, st) ==
    choice(<<map_primitive(primitive_type_parser(s, p)),
             record_type(s, p),
             custom_type(s, p, st)>>)

\* .map(QualifiedType::from) on the qualifiers q and the type t
map_qualified_type(q, t) ==
    IF t.ok THEN Ok(t.pos, QualifiedType(q.val, t.val), Max(q.far, t.far))
    ELSE Err(Max(q.far, t.far))

\* qualifiers.then(type): the type after the qualifiers q
then_type(s, st, q) == map_qualified_type(q, r_type(s, q.pos, st))

\* qualifiers.then(type).map(QualifiedType::from)
qualified_type(s, p, st) == then_type(s, st, qualifiers(s, p))

\* The decimal digits of usize::MAX where usize has 64 bits.
UsizeMaxDigits == <<1, 8, 4, 4, 6, 7, 4, 4, 0, 7, 3, 7, 0, 9, 5, 5, 1, 6, 1, 5>>

RECURSIVE digits_le(_, _)
\* The number of the digits a is at most that of the digits b of the same
\* length.
digits_le(a, b) ==
    IF a = <<>> THEN TRUE
    ELSE IF Head(a) # Head(b) THEN Head(a) < Head(b)
    ELSE digits_le(Tail(a), Tail(b))

\* usize::from_str answers Ok: the digits (int(10) admits no leading zero)
\* say a number that is at most usize::MAX.
usize_fits(digits) ==
    \/ Len(digits) < Len(UsizeMaxDigits)
    \/ Len(digits) = Len(UsizeMaxDigits) /\ digits_le(digits, UsizeMaxDigits)

RECURSIVE usize_from_str(_, _)
\* usize::from_str on the digits of an int(10) literal, acc the value so far.
usize_from_str(digits, acc) ==
    IF digits = <<>> THEN acc
    ELSE usize_from_str(Tail(digits), acc * 10 + Head(digits))

\* The closing delimiter of .delimited_by(open, close) after the content.
delimited_close(inner, close) ==
    IF close.ok THEN Ok(close.pos, inner.val, inner.far)
    ELSE Err(Max(inner.far, close.far))

\* .delimited_by(open, just(c).padded()): the content, then the delimiter c.
delimited_by(s, inner, c) == delimited_close(inner, just_padded(s, inner.pos, c))

\* array_size that reads a literal usize::from_str refuses as no size.
array_size_lenient(s, q) ==
    IF IsNumber(At(s, q))
    THEN IF usize_fits(NumberDigits(s[q]))
         THEN Ok(q + 1, Some(usize_from_str(NumberDigits(s[q]), 0)), 0)
         ELSE Ok(q + 1, None, 0)
    ELSE Ok(q, None, q)

\* int(10).try_map(usize::from_str).or_not(): the size, or nothing consumed
\* when there is no literal or try_map fails on it.
array_size(s, q) ==
    IF IsNumber(At(s, q)) /\ usize_fits(NumberDigits(s[q]))
    THEN Ok(q + 1, Some(usize_from_str(NumberDigits(s[q]), 0)), 0)
    ELSE Ok(q, None, q)

\* The array suffix after its opening bracket.
array_suffix_open(s, open) ==
    IF ~open.ok THEN open ELSE delimited_by(s, array_size(s, open.pos), "]")

\* int(10).try_map(usize::from_str).or_not().delimited_by('[', ']')
array_suffix(s, p) == array_suffix_open(s, just_padded(s, p, "["))

RECURSIVE declaration(_, _, _)
RECURSIVE declarator(_, _, _)
RECURSIVE func_param_list(_, _, _, _, _, _)
RECURSIVE suffixes(_, _, _, _, _)

\* The parameter after the separator sep: collected, or the end of the list
\* (allow_trailing keeps the separator consumed).
func_param_item(s, st, count, acc, far, sep, item) ==
    IF item.ok
    THEN func_param_list(s, item.pos, st, count + 1,
                         Append(acc, item.val), Max(far, item.far))
    ELSE Ok(sep.pos, acc, Max(far, item.far))

\* The list after count parameters, given the separator that follows them.
func_param_sep(s, p, st, count, acc, far, sep) ==
    IF ~sep.ok THEN Ok(p, acc, Max(far, sep.far))
    ELSE func_param_item(s, st, count, acc, far, sep, declaration(s, sep.pos, st))

\* declaration.separated_by(just(',').padded()).allow_trailing().collect():
\* count parameters are in acc, p is the position after the last of them.
func_param_list(s, p, st, count, acc, far) ==
    func_param_sep(s, p, st, count, acc, far,
                   IF count > 0 THEN just_padded(s, p, ",") ELSE Ok(p, ",", 0))

\* func_suffix_open without the alternative for the keyword void alone.
func_suffix_open_param_list(s, st, open) ==
    IF ~open.ok THEN open
    ELSE delimited_by(s, func_param_list(s, open.pos, st, 0, <<>>, 0), ")")

\* The function suffix after its opening parenthesis.
func_suffix_open(s, st, open) ==
    IF ~open.ok THEN open
    ELSE IF At(s, open.pos) = "void" /\ just_padded(s, open.pos + 1, ")").ok
    THEN Ok(just_padded(s, open.pos + 1, ")").pos, <<>>, 0)
    ELSE delimited_by(s, func_param_list(s, open.pos, st, 0, <<>>, 0), ")")

\* choice((keyword("void") in parentheses -> no parameters,
\*         func_param_list in parentheses))
func_suffix(s, p, st) == func_suffix_open(s, st, just_padded(s, p, "("))

\* The parenthesized declarator after its opening parenthesis.
atom_open(s, p, st, open) ==
    IF ~open.ok THEN Err(Max(p, open.far))
    ELSE delimited_by(s, declarator(s, open.pos, st), ")")

\* choice((ident().map(Declarator::Ident), declarator in parentheses))
atom(s, p, st) ==
    IF IsWord(At(s, p)) THEN Ok(p + 1, Ident(s[p]), 0)
    ELSE atom_open(s, p, st, just_padded(s, p, "("))

\* The step of the foldl when no array suffix follows: a function suffix
\* wraps inner, or the suffixes end.
suffixes_function(s, p, st, inner, far, fn) ==
    IF fn.ok
    THEN suffixes(s, fn.pos, st, Function(inner, fn.val), Max(far, fn.far))
    ELSE Ok(p, inner, Max(far, fn.far))

\* The step of the foldl: an array suffix wraps inner, or the function suffix
\* is tried.
suffixes_array(s, p, st, inner, far, arr) ==
    IF arr.ok
    THEN suffixes(s, arr.pos, st, Array(inner, arr.val), Max(far, arr.far))
    ELSE suffixes_function(s, p, st, inner, Max(far, arr.far), func_suffix(s, p, st))

\* The foldl over choice((array_suffix, func_suffix)).repeated(): each suffix
\* wraps what the suffixes before it built.
suffixes(s, p, st, inner, far) ==
    suffixes_array(s, p, st, inner, far, array_suffix(s, p))

\* atom.or_not().map(|atom| atom.unwrap_or(Declarator::Anonymous))
or_not_anonymous(p, a) == IF a.ok THEN a ELSE Ok(p, Anonymous, a.far)

\* .foldl(suffixes.repeated(), ...) on the atom a
foldl_suffixes(s, st, a) == suffixes(s, a.pos, st, a.val, a.far)

\* atom.or_not().map(unwrap_or(Anonymous)).foldl(suffixes)
with_suffixes(s, p, st) == foldl_suffixes(s, st, or_not_anonymous(p, atom(s, p, st)))

RECURSIVE ptr_prefixes(_, _)
\* just('*').padded().ignore_then(qualifiers).repeated(): the qualifier sets of
\* the pointer prefixes, in source order.
ptr_prefixes(s, p) ==
    LET star == just_padded(s, p, "*")
        q == qualifiers(s, star.pos)
        rest == ptr_prefixes(s, q.pos)
    IN  IF star.ok THEN Ok(rest.pos, <<q.val>> \o rest.val, Max(q.far, rest.far))
        ELSE Ok(p, <<>>, star.far)

RECURSIVE foldl_ptr(_, _)
\* The pointer prefixes folded from the left: the first written innermost.
foldl_ptr(prefixes, inner) ==
    IF prefixes = <<>> THEN inner
    ELSE foldl_ptr(Tail(prefixes), Ptr(inner, Head(prefixes)))

RECURSIVE foldr_ptr(_, _)
\* .foldr(with_suffixes, |qualifiers, inner| Ptr(inner, qualifiers))
foldr_ptr(prefixes, inner) ==
    IF prefixes = <<>> THEN inner
    ELSE Ptr(foldr_ptr(Tail(prefixes), inner), Head(prefixes))

\* The pointer prefixes pre folded around the suffixed atom suf.
foldr(pre, suf) == Ok(suf.pos, foldr_ptr(pre.val, suf.val), Max(pre.far, suf.far))

\* The suffixed atom after the pointer prefixes pre.
declarator_prefixed(s, st, pre) == foldr(pre, with_suffixes(s, pre.pos, st))

\* declarator with the pointers wrapped around the atom, inside the suffixes.
declarator_tight_ptr(s, p, st) ==
    LET pre == ptr_prefixes(s, p)
        a == atom(s, pre.pos, st)
        suf == IF a.ok
               THEN suffixes(s, a.pos, st, foldr_ptr(pre.val, a.val), a.far)
               ELSE suffixes(s, pre.pos, st, foldr_ptr(pre.val, Anonymous), a.far)
    IN  Ok(suf.pos, suf.val, Max(pre.far, suf.far))

\* The pointer prefixes, then the atom with its suffixes, the pointers
\* outermost.
declarator(s, p, st) == declarator_prefixed(s, st, ptr_prefixes(s, p))

\* .map(Declaration::from).padded() on the type qt and the declarator d
map_declaration(s, qt, d) ==
    Ok(skip_ws(s, d.pos), Declaration(qt.val, d.val), Max(qt.far, d.far))

\* qualified_type.then(declarator): the declarator after the type qt
then_declarator(s, st, qt) ==
    IF qt.ok THEN map_declaration(s, qt, declarator(s, qt.pos, st)) ELSE qt

\* qualified_type.then(declarator).map(Declaration::from).padded()
declaration(s, p, st) == then_declarator(s, st, qualified_type(s, skip_ws(s, p), st))

\* register_typedef that keeps only the newest name.
register_typedef_replace(st, decl) ==
    IF name(decl.declarator) # None THEN name(decl.declarator) ELSE st

\* register_typedef that pushes an empty name for a typedef with no name.
register_typedef_always(st, decl) ==
    Append(st, IF name(decl.declarator) # None THEN name(decl.declarator)[1] ELSE "")

\* The map_with of the typedef branch: push the declared name, if there is
\* one, onto custom_types.
register_typedef(st, decl) ==
    IF name(decl.declarator) # None
    THEN Append(st, name(decl.declarator)[1])
    ELSE st

\* decl.base_type.0.insert(TypeQualifier::Typedef)
insert_typedef(decl) ==
    Declaration(QualifiedType(decl.base_type.quals \cup {"Typedef"},
                              decl.base_type.ty),
                decl.declarator)

\* .map_with(...) of the typedef branch on the declaration d: the value is the
\* declaration and the state after it.
typedef_map_with(st, d) ==
    IF d.ok
    THEN Ok(d.pos, [decl |-> insert_typedef(d.val),
                    st |-> register_typedef(st, d.val)], d.far)
    ELSE d

\* .ignore_then(declaration): the declaration after the typedef keyword kw
typedef_keyword(s, st, kw) ==
    IF ~kw.ok THEN kw ELSE typedef_map_with(st, declaration(s, kw.pos, st))

\* keyword("typedef").padded().ignore_then(declaration).map_with(...)
typedef_declaration(s, p, st) == typedef_keyword(s, st, keyword_padded(s, p, "typedef"))

\* The regular branch of the top-level choice: the declaration as it is, the
\* state as it was.
regular_declaration(st, d) ==
    IF d.ok THEN Ok(d.pos, [decl |-> d.val, st |-> st], d.far) ELSE d

\* top_level_declaration that marks the declarations of both branches.
top_level_declaration_mark_all(s, p, st) ==
    LET td == typedef_declaration(s, p, st)
        d == declaration(s, p, st)
    IN  IF td.ok THEN td
        ELSE IF d.ok
        THEN Ok(d.pos, [decl |-> insert_typedef(d.val), st |-> st], Max(td.far, d.far))
        ELSE Err(Max(td.far, d.far))

\* choice((typedef declaration, regular declaration))
top_level_declaration(s, p, st) ==
    choice(<<typedef_declaration(s, p, st),
             regular_declaration(st, declaration(s, p, st))>>)

RECURSIVE separator(_, _, _)
\* just(';').padded().repeated().at_least(1); count semicolons are consumed.
separator(s, p, count) ==
    LET semi == just_padded(s, p, ";")
    IN  IF semi.ok THEN separator(s, semi.pos, count + 1)
        ELSE IF count >= 1 THEN Ok(p, count, semi.far)
        ELSE Err(semi.far)

RECURSIVE separated_declarations(_, _, _, _, _)

\* The declaration after the separator sep: collected, or the end of the list
\* (allow_trailing keeps the separator consumed).
separated_item(s, st, acc, far, sep, item) ==
    IF item.ok
    THEN separated_declarations(s, item.pos, item.val.st,
                                Append(acc, item.val.decl),
                                Max(far, Max(sep.far, item.far)))
    ELSE Ok(sep.pos, [decls |-> acc, st |-> st], Max(far, Max(sep.far, item.far)))

\* The list after the declarations in acc, given the separator that follows
\* them.
separated_sep(s, p, st, acc, far, sep) ==
    IF ~sep.ok THEN Ok(p, [decls |-> acc, st |-> st], Max(far, sep.far))
    ELSE separated_item(s, st, acc, far, sep, top_level_declaration(s, sep.pos, st))

\* choice(...).separated_by(separator).allow_trailing().collect(): acc holds
\* the declarations so far, p is the position after the last of them.  The
\* value is the list and the state after the last declaration consumed.
separated_declarations(s, p, st, acc, far) ==
    separated_sep(s, p, st, acc, far,
                  IF acc # <<>> THEN separator(s, p, 0) ELSE Ok(p, 0, 0))

RECURSIVE before_padding(_, _)
\* The position of the last lexeme before p that .padded() does not skip.
before_padding(s, p) ==
    IF IsWhitespace(At(s, p - 1)) THEN before_padding(s, p - 1) ELSE p - 1

\* The try_map of the array size ran at position f and failed: f holds a
\* literal usize::from_str refuses, and what was consumed before it is the
\* padded opening bracket (only array_suffix consumes a bracket, and
\* array_size is the first parser to run after it).
try_map_failed(s, f) ==
    /\ IsNumber(At(s, f)) /\ ~usize_fits(NumberDigits(s[f]))
    /\ At(s, before_padding(s, f)) = "["

\* The error of a parse that failed furthest at position f.  The error
\* try_map raised there, Rich::custom(span, err) with the span of the literal
\* and the text of the ParseIntError, is the one kept when errors at one
\* position are merged (parse_out_of_bounds_array_length); of any other
\* error only the start is modelled.
rich_error(s, f) ==
    IF try_map_failed(s, f)
    THEN [at |-> Offset(s, f), end |-> Offset(s, f + 1),
          reason |-> "number too large to fit in target type"]
    ELSE [at |-> Offset(s, f)]

\* .into_result() of the parse r of the line s: the declarations when the
\* whole line was consumed, otherwise one error; with them the state the call
\* leaves behind.
into_result(s, r) ==
    IF r.pos = Len(s) + 1
    THEN [ok |-> TRUE, decls |-> r.val.decls, errs |-> <<>>, state |-> r.val.st]
    ELSE [ok |-> FALSE, decls |-> <<>>,
          errs |-> <<rich_error(s, Max(r.far, r.pos))>>,
          state |-> r.val.st]

\* parse_with_state that hands out the declarations consumed before the
\* error together with the error.
parse_with_state_partial(s, st) ==
    LET r == separated_declarations(s, 1, st, <<>>, 0)
    IN  IF r.pos = Len(s) + 1
        THEN [ok |-> TRUE, decls |-> r.val.decls, errs |-> <<>>, state |-> r.val.st]
        ELSE [ok |-> FALSE, decls |-> r.val.decls,
              errs |-> <<rich_error(s, Max(r.far, r.pos))>>,
              state |-> r.val.st]

\* parse_with_state on a copy of the state: the caller's state is left as it
\* was.
parse_with_state_copy(s, st) ==
    LET r == separated_declarations(s, 1, st, <<>>, 0)
    IN  IF r.pos = Len(s) + 1
        THEN [ok |-> TRUE, decls |-> r.val.decls, errs |-> <<>>, state |-> st]
        ELSE [ok |-> FALSE, decls |-> <<>>,
              errs |-> <<rich_error(s, Max(r.far, r.pos))>>, state |-> st]

\* parse_with_state that puts the state back as it was when the parse
\* fails.
parse_with_state_rollback(s, st) ==
    LET r == separated_declarations(s, 1, st, <<>>, 0)
    IN  IF r.pos = Len(s) + 1
        THEN [ok |-> TRUE, decls |-> r.val.decls, errs |-> <<>>, state |-> r.val.st]
        ELSE [ok |-> FALSE, decls |-> <<>>,
              errs |-> <<rich_error(s, Max(r.far, r.pos))>>, state |-> st]

\* parser().parse_with_state(line, state).into_result()
parse_with_state(s, st) == into_result(s, separated_declarations(s, 1, st, <<>>, 0))

\* State::default()
DefaultState == <<>>

\* parser().parse(src): a parse with a fresh default state.
parse(s) == parse_with_state(s, DefaultState)

----------------------------------------------------------------------------
(* Highlighted text (lib/src/color/mod.rs) *)

HighlightedTextSegment(text, highlight) == [text |-> text, highlight |-> highlight]

\* Vec::push of a segment
push(msg, segment) == Append(msg, segment)

\* HighlightedText::push_str: appended to the last segment when that one has
\* no highlight, otherwise a new segment with no highlight.
push_str(msg, text) ==
    IF msg # <<>> /\ msg[Len(msg)].highlight = "None"
    THEN [msg EXCEPT ![Len(msg)].text = @ \o text]
    ELSE Append(msg, HighlightedTextSegment(text, "None"))

\* Vec::extend
extend(msg, segments) == msg \o segments

RECURSIVE PlainText(_)
\* PlainFormatter: the texts of the segments, concatenated.
PlainText(msg) ==
    IF msg = <<>> THEN "" ELSE msg[1].text \o PlainText(Tail(msg))

----------------------------------------------------------------------------
(* Explainer (lib/src/explainer.rs) *)

\* Display of TypeQualifiers: the members in flag order, space separated.
QualifierOrder == <<"Const", "Volatile", "Restrict">>
QualifierText == ("Const" :> "const") @@ ("Volatile" :> "volatile")
                 @@ ("Restrict" :> "restrict")

RECURSIVE qualifier_words_reversed(_, _)
\* qualifier_words with the members in the reverse of the flag order.
qualifier_words_reversed(quals, i) ==
    IF i > Len(QualifierOrder) THEN <<>>
    ELSE qualifier_words_reversed(quals, i + 1)
         \o (IF QualifierOrder[i] \in quals
             THEN <<QualifierText[QualifierOrder[i]]>> ELSE <<>>)

RECURSIVE qualifier_words(_, _)
qualifier_words(quals, i) ==
    IF i > Len(QualifierOrder) THEN <<>>
    ELSE (IF QualifierOrder[i] \in quals
          THEN <<QualifierText[QualifierOrder[i]]>> ELSE <<>>)
         \o qualifier_words(quals, i + 1)

qualifiers_to_string(quals) ==
    IF qualifier_words(quals, 1) = <<>> THEN ""
    ELSE stringify(qualifier_words(quals, 1))

\* Display of Type
type_to_string(ty) ==
    CASE ty.k = "Primitive" -> ty.name
      [] ty.k = "Record" -> ty.kind \o " " \o ty.name
      [] ty.k = "Custom" -> ty.name

\* text.chars().next() and text.chars().last()
chars_next(text) == IF Len(text) = 0 THEN None ELSE Some(Head(text))
chars_last(text) ==
    IF Len(text) = 0 THEN None ELSE Some(SubSeq(text, Len(text), Len(text)))

\* Returns the appropriate article ("a" or "an") for the given noun.
article_for(noun) ==
    LET c == chars_next(noun.text)
    IN  IF c = None THEN ""
        ELSE IF c[1] \in {"a", "e", "i", "o", "u"} THEN "an " ELSE "a "

\* plural_suffix_for that always answers "s".
plural_suffix_for_s(noun) == IF chars_last(noun.text) = None THEN "" ELSE "s"

\* Naively returns the plural suffix for a noun.
plural_suffix_for(noun) ==
    LET c == chars_last(noun.text)
    IN  IF c = None THEN ""
        ELSE IF c[1] \in {"s", "x", "z"} THEN "es" ELSE "s"

\* Explanation::new(); panicked marks a walk that hit a panic.
Explanation(identifier_name, msg, plurality) ==
    [identifier_name |-> identifier_name, msg |-> msg, plurality |-> plurality,
     panicked |-> FALSE]
Panicked ==
    [identifier_name |-> None, msg |-> <<>>, plurality |-> "Singular",
     panicked |-> TRUE]

format_qualified_type(qt) ==
    LET highlight == IF qt.ty.k = "Primitive" THEN "PrimitiveType"
                     ELSE "UserDefinedType"
        unqualified == HighlightedTextSegment(type_to_string(qt.ty), highlight)
    IN  IF qt.quals = {} THEN <<unqualified>>
        ELSE <<HighlightedTextSegment(qualifiers_to_string(qt.quals), "Qualifier"),
               HighlightedTextSegment(" ", "None"),
               unqualified>>

\* The match on the plurality that attaches the base type: an article in
\* front of it, or a plural suffix after it.  Indexing an empty list panics.
attach_base_type(explanation, highlighted_type) ==
    IF highlighted_type = <<>> THEN Panicked
    ELSE IF explanation.plurality = "Singular"
    THEN [explanation EXCEPT !.msg =
            extend(push_str(@, article_for(highlighted_type[1])), highlighted_type)]
    ELSE [explanation EXCEPT !.msg =
            push_str(extend(@, highlighted_type),
                     plural_suffix_for(highlighted_type[Len(highlighted_type)]))]

\* explain_ptr that ends with sub.singular().
explain_ptr_singular(sub, quals, skip_name) ==
    LET m0 == IF sub.plurality = "Singular" THEN push_str(sub.msg, "a ") ELSE sub.msg
        m1 == IF quals # {}
              THEN push_str(push(m0, HighlightedTextSegment(qualifiers_to_string(quals),
                                                            "Qualifier")), " ")
              ELSE m0
        m2 == push_str(push(m1, HighlightedTextSegment(
                  IF sub.plurality = "Singular" THEN "pointer" ELSE "pointers",
                  "QuasiKeyword")), " ")
        named == sub.identifier_name # None /\ ~skip_name
        m3 == IF named
              THEN push_str(push(push_str(m2, "named "),
                        HighlightedTextSegment(sub.identifier_name[1], "Ident")), " ")
              ELSE m2
    IN  [sub EXCEPT !.msg = push_str(m3, "to "),
                    !.identifier_name = IF named THEN None ELSE @,
                    !.plurality = "Singular"]

\* The Ptr branch with the singular wording for every inner declarator.
explain_ptr_article(sub, quals, skip_name) ==
    LET m0 == push_str(sub.msg, "a ")
        m1 == IF quals # {}
              THEN push_str(push(m0, HighlightedTextSegment(qualifiers_to_string(quals),
                                                            "Qualifier")), " ")
              ELSE m0
        m2 == push_str(push(m1, HighlightedTextSegment("pointer", "QuasiKeyword")), " ")
        named == sub.identifier_name # None /\ ~skip_name
        m3 == IF named
              THEN push_str(push(push_str(m2, "named "),
                        HighlightedTextSegment(sub.identifier_name[1], "Ident")), " ")
              ELSE m2
    IN  [sub EXCEPT !.msg = push_str(m3, "to "),
                    !.identifier_name = IF named THEN None ELSE @]

\* The Ptr branch of explain_declarator, given the explanation of the inner
\* declarator.
explain_ptr(sub, quals, skip_name) ==
    LET qualifiers_text ==
            IF quals = {} THEN None
            ELSE Some(HighlightedTextSegment(qualifiers_to_string(quals), "Qualifier"))
        m0 == IF sub.plurality = "Singular" THEN push_str(sub.msg, "a ") ELSE sub.msg
        m1 == IF qualifiers_text # None
              THEN push_str(push(m0, qualifiers_text[1]), " ") ELSE m0
        m2 == push(m1, HighlightedTextSegment(
                  IF sub.plurality = "Singular" THEN "pointer" ELSE "pointers",
                  "QuasiKeyword"))
        m3 == push_str(m2, " ")
        named == sub.identifier_name # None /\ ~skip_name
        m4 == IF named
              THEN push_str(push(push_str(m3, "named "),
                        HighlightedTextSegment(sub.identifier_name[1], "Ident")), " ")
              ELSE m3
    IN  [sub EXCEPT !.msg = push_str(m4, "to "),
                    !.identifier_name = IF named THEN None ELSE @]

DigitText == <<"0", "1", "2", "3", "4", "5", "6", "7", "8", "9">>

RECURSIVE usize_to_string(_)
\* len.to_string(): the decimal digits of a usize.
usize_to_string(n) ==
    IF n < 10 THEN DigitText[n + 1]
    ELSE usize_to_string(n \div 10) \o DigitText[(n % 10) + 1]

\* explain_array that writes the name and leaves it pending.
explain_array_keep_name(sub, len, skip_name) ==
    LET m0 == IF sub.plurality = "Singular"
              THEN push(push_str(sub.msg, "an "),
                        HighlightedTextSegment("array", "QuasiKeyword"))
              ELSE push(sub.msg, HighlightedTextSegment("arrays", "QuasiKeyword"))
        m1 == IF sub.identifier_name # None /\ ~skip_name
              THEN push(push_str(m0, " named "),
                        HighlightedTextSegment(sub.identifier_name[1], "Ident"))
              ELSE m0
        m2 == push_str(m1, " of ")
        m3 == IF len # None
              THEN push_str(push(m2, HighlightedTextSegment(usize_to_string(len[1]),
                                                            "Number")), " ")
              ELSE m2
    IN  [sub EXCEPT !.msg = m3, !.plurality = "Plural"]

\* The Array branch of explain_declarator.
explain_array(sub, len, skip_name) ==
    LET m0 == IF sub.plurality = "Singular"
              THEN push(push_str(sub.msg, "an "),
                        HighlightedTextSegment("array", "QuasiKeyword"))
              ELSE push(sub.msg, HighlightedTextSegment("arrays", "QuasiKeyword"))
        named == sub.identifier_name # None /\ ~skip_name
        m1 == IF named
              THEN push(push_str(m0, " named "),
                        HighlightedTextSegment(sub.identifier_name[1], "Ident"))
              ELSE m0
        m2 == push_str(m1, " of ")
        m3 == IF len # None
              THEN push_str(push(m2, HighlightedTextSegment(usize_to_string(len[1]),
                                                            "Number")), " ")
              ELSE m2
    IN  [sub EXCEPT !.msg = m3,
                    !.identifier_name = IF named THEN None ELSE @,
                    !.plurality = "Plural"]

\* The start of the Function branch that leaves the name for later: the
\* function never takes it.
explain_function_head_late(sub, skip_name) ==
    LET fn == HighlightedTextSegment("function", "QuasiKeyword")
        fns == HighlightedTextSegment("functions", "QuasiKeyword")
    IN  IF sub.plurality = "Singular"
        THEN [sub EXCEPT !.msg = push_str(push(push_str(@, "a "), fn), " that takes ")]
        ELSE [sub EXCEPT !.msg = push_str(push(@, fns), " that take ")]

\* The first match of the Function branch: "a function [named N] that takes "
\* or "functions that take "; a pending name on a plural is unreachable!().
explain_function_head(sub, skip_name) ==
    LET pending == IF skip_name THEN None ELSE sub.identifier_name
        fn == HighlightedTextSegment("function", "QuasiKeyword")
        fns == HighlightedTextSegment("functions", "QuasiKeyword")
    IN  IF pending = None /\ sub.plurality = "Singular"
        THEN [sub EXCEPT !.msg = push_str(push(push_str(@, "a "), fn), " that takes ")]
        ELSE IF pending = None /\ sub.plurality = "Plural"
        THEN [sub EXCEPT !.msg = push_str(push(@, fns), " that take ")]
        ELSE IF sub.plurality = "Singular"
        THEN [sub EXCEPT
                !.msg = push_str(push(push_str(push(push_str(@, "a "), fn), " named "),
                                      HighlightedTextSegment(pending[1], "Ident")),
                                 " that takes "),
                !.identifier_name = None]
        ELSE Panicked

RECURSIVE explain_params_rest(_, _, _)
\* The loop over all parameters but the last, each followed by ", ".
explain_params_rest(msg, params, i) ==
    IF i >= Len(params) THEN msg
    ELSE explain_params_rest(push_str(extend(msg, params[i]), ", "), params, i + 1)

\* explain_params without the comma before the final "and".
explain_params_no_comma(msg, params) ==
    CASE Len(params) = 0 -> push_str(msg, "no parameters")
      [] Len(params) = 1 -> push_str(extend(push_str(msg, "("), params[1]), ")")
      [] OTHER ->
            push_str(extend(push_str(extend(
                explain_params_rest(push_str(msg, "("),
                                    SubSeq(params, 1, Len(params) - 1), 1),
                params[Len(params) - 1]), " and "), params[Len(params)]), ")")

\* The match on the parameter list; params are the explanations of the
\* parameters, in order.
explain_params(msg, params) ==
    CASE Len(params) = 0 -> push_str(msg, "no parameters")
      [] Len(params) = 1 -> push_str(extend(push_str(msg, "("), params[1]), ")")
      [] Len(params) = 2 ->
            push_str(extend(push_str(extend(push_str(msg, "("), params[1]), " and "),
                            params[2]), ")")
      [] OTHER ->
            push_str(extend(push_str(explain_params_rest(push_str(msg, "("), params, 1),
                                     "and "),
                            params[Len(params)]), ")")

\* The end of the Function branch: " and returns " or " and return ", and
\* the result is singular.
explain_function_tail(sub) ==
    [sub EXCEPT !.msg = push_str(@, IF sub.plurality = "Singular"
                                    THEN " and returns " ELSE " and return "),
                !.plurality = "Singular"]

RECURSIVE explain_declarator(_, _)
RECURSIVE explain_declaration(_)
RECURSIVE explain_all(_)

\* explain_declaration of every declaration of a list, in order.
explain_all(decls) ==
    IF decls = <<>> THEN <<>>
    ELSE <<explain_declaration(Head(decls))>> \o explain_all(Tail(decls))

explain_declarator(d, skip_name) ==
    CASE d.k = "Anonymous" -> Explanation(None, <<>>, "Singular")
      [] d.k = "Ident" -> Explanation(Some(d.name), <<>>, "Singular")
      [] d.k = "Ptr" ->
            LET sub == explain_declarator(d.inner, skip_name)
            IN  IF sub.panicked THEN Panicked
                ELSE explain_ptr(sub, d.quals, skip_name)
      [] d.k = "Array" ->
            LET sub == explain_declarator(d.inner, skip_name)
            IN  IF sub.panicked THEN Panicked
                ELSE explain_array(sub, d.size, skip_name)
      [] d.k = "Function" ->
            LET sub == explain_declarator(d.func, skip_name)
                head == explain_function_head(sub, skip_name)
                params == explain_all(d.params)
            IN  IF sub.panicked \/ head.panicked
                   \/ \E i \in 1..Len(params) : params[i].panicked
                THEN Panicked
                ELSE explain_function_tail(
                        [head EXCEPT !.msg =
                            explain_params(@, [i \in 1..Len(params) |-> params[i].msg])])

explain_declaration_impl(decl) ==
    LET explanation == explain_declarator(decl.declarator, FALSE)
        typed == attach_base_type(explanation, format_qualified_type(decl.base_type))
    IN  IF explanation.panicked \/ typed.panicked THEN Panicked
        ELSE IF typed.identifier_name # None
        THEN [typed EXCEPT !.msg =
                push(push_str(@, " named "),
                     HighlightedTextSegment(typed.identifier_name[1], "Ident"))]
        ELSE typed

\* explain_typedef that walks the declarator as an ordinary declaration does:
\* the name is spliced into the declarator phrase.
explain_typedef_splice(decl) ==
    LET declarator_explanation == explain_declarator(decl.declarator, FALSE)
        m2 == extend(push_str(<<>>, "a type defined as "), declarator_explanation.msg)
    IN  [attach_base_type(
            [Explanation(None, m2, "Singular") EXCEPT
                !.plurality = declarator_explanation.plurality],
            format_qualified_type(
                QualifiedType(decl.base_type.quals \ {"Typedef"}, decl.base_type.ty)))
         EXCEPT !.plurality = "Singular"]

\* Explains a declaration whose base type has the typedef qualifier; the
\* assert! panics when it has not.
explain_typedef(decl) ==
    LET new_type == QualifiedType(decl.base_type.quals \ {"Typedef"}, decl.base_type.ty)
        type_str == format_qualified_type(new_type)
        declarator_explanation == explain_declarator(decl.declarator, TRUE)
        m0 == push_str(<<>>, "a type")
        m1 == IF declarator_explanation.identifier_name # None
              THEN push(push_str(m0, " named "),
                        HighlightedTextSegment(declarator_explanation.identifier_name[1],
                                               "UserDefinedType"))
              ELSE m0
        m2 == extend(push_str(m1, " defined as "), declarator_explanation.msg)
    IN  IF "Typedef" \notin decl.base_type.quals THEN Panicked
        ELSE IF declarator_explanation.panicked THEN Panicked
        ELSE [attach_base_type(
                [Explanation(None, m2, "Singular") EXCEPT
                    !.plurality = declarator_explanation.plurality],
                type_str)
              EXCEPT !.plurality = "Singular"]

\* The public entry point: the message of the explanation.
explain_declaration(decl) ==
    IF "Typedef" \in decl.base_type.quals
    THEN explain_typedef(decl)
    ELSE explain_declaration_impl(decl)

----------------------------------------------------------------------------
(* Formatters (cli/src/fmt.rs, wasm/src/fmt.rs) *)

RECURSIVE cli_format(_)
\* CliFormatter::format on a stream without colors: the text of every
\* non-empty segment.
cli_format(text) ==
    IF text = <<>> THEN ""
    ELSE (IF text[1].text # "" THEN text[1].text ELSE "") \o cli_format(Tail(text))

\* The class mapping the page gives to HtmlFormatter::new: identifiers have no
\* class.
ClassMapping ==
    ("Qualifier" :> Some("qualifier")) @@ ("PrimitiveType" :> Some("primitive-type"))
    @@ ("UserDefinedType" :> Some("user-defined-type")) @@ ("Ident" :> None)
    @@ ("Number" :> Some("number")) @@ ("QuasiKeyword" :> Some("quasi"))
    @@ ("None" :> None)

RECURSIVE html_format(_)
\* HtmlFormatter::format: a span with the class of the highlight around every
\* non-empty segment that has one.  No text of the model needs escaping.
html_format(text) ==
    IF text = <<>> THEN ""
    ELSE LET segment == text[1]
             class == ClassMapping[segment.highlight]
         IN  (IF segment.text = "" THEN ""
              ELSE IF class # None
              THEN "<span class=\"" \o class[1] \o "\">" \o segment.text \o "</span>"
              ELSE segment.text)
             \o html_format(Tail(text))

\* explain_to_html, given explain_declaration of the declaration
explain_to_html(explanation) == html_format(explanation.msg)

RECURSIVE explain_declarations_rest(_)
\* The loop over all declarations but the last, each followed by ";\n\n".
explain_declarations_rest(explained) ==
    IF Len(explained) <= 1 THEN ""
    ELSE explain_to_html(explained[1]) \o ";\n\n"
         \o explain_declarations_rest(Tail(explained))

\* RichPattern: what an error says was expected.
Token(c) == [k |-> "Token", v |-> c]
Label(l) == [k |-> "Label", v |-> l]
Identifier(i) == [k |-> "Identifier", v |-> i]
\* RichPattern::Any
AnyToken == [k |-> "Any"]
SomethingElse == [k |-> "SomethingElse"]
EndOfInput == [k |-> "EndOfInput"]

\* An error with RichReason::ExpectedFound: its span, the patterns expected
\* and the token found, None at the end of the input.
expected_found(at, end, expected, found) ==
    [at |-> at, end |-> end, expected |-> expected, found |-> found]

\* Display of RichPatternWrapper
wrap(pattern) ==
    CASE pattern.k = "Token" -> "'" \o pattern.v \o "'"
      [] pattern.k = "Label" -> pattern.v
      [] pattern.k = "Identifier" -> "'" \o pattern.v \o "'"
      [] pattern.k = "Any" -> "anything"
      [] pattern.k = "SomethingElse" -> "something else"
      [] pattern.k = "EndOfInput" -> "end of input"

RECURSIVE fmt_rest(_)
\* for thing in rest { write!(f, "{}, ", thing.wrap()) }
fmt_rest(rest) ==
    IF rest = <<>> THEN "" ELSE wrap(rest[1]) \o ", " \o fmt_rest(Tail(rest))

\* fmt_expected that joins two alternatives as it joins three.
fmt_expected_serial(expected) ==
    CASE Len(expected) = 0 -> "[unknown]"
      [] Len(expected) = 1 -> wrap(expected[1])
      [] OTHER -> fmt_rest(SubSeq(expected, 1, Len(expected) - 1))
                  \o "or " \o wrap(expected[Len(expected)])

\* The match on expected.as_slice(): the alternatives by their number.
fmt_expected(expected) ==
    CASE Len(expected) = 0 -> "[unknown]"
      [] Len(expected) = 1 -> wrap(expected[1])
      [] Len(expected) = 2 -> wrap(expected[1]) \o " or " \o wrap(expected[2])
      [] OTHER -> fmt_rest(SubSeq(expected, 1, Len(expected) - 1))
                  \o "or " \o wrap(expected[Len(expected)])

\* The match on found.
fmt_found(found) ==
    IF found = None THEN "end of input" ELSE "'" \o found[1] \o "'"

\* Display of RichWrapper: "at {span}: ", the span written start..end, then
\* what was expected and found, or the message of a RichReason::Custom.
rich_wrapper_fmt(err) ==
    "at " \o usize_to_string(err.at) \o ".." \o usize_to_string(err.end) \o ": "
    \o (IF "expected" \in DOMAIN err
        THEN "expected " \o fmt_expected(err.expected)
             \o ", but found " \o fmt_found(err.found)
        ELSE err.reason)

\* explain_declarations with no case for the empty list: every list but the
\* list of one ends in a semicolon.
explain_declarations_terminated(explained) ==
    CASE Len(explained) = 1 -> explain_to_html(explained[1])
      [] OTHER -> explain_declarations_rest(explained)
                  \o (IF explained = <<>> THEN ""
                      ELSE explain_to_html(explained[Len(explained)]))
                  \o ";"

\* explain_declarations, given explain_declaration of each declaration
explain_declarations(explained) ==
    CASE Len(explained) = 0 -> ""
      [] Len(explained) = 1 -> explain_to_html(explained[1])
      [] OTHER -> explain_declarations_rest(explained)
                  \o explain_to_html(explained[Len(explained)]) \o ";"

----------------------------------------------------------------------------
(* Inputs *)

\* The longest registry a session is followed to.
MaxTypes == 3

\* The nesting depth of the declarators given to the explainer directly.
MaxDepth == 3

\* The statements typed at the prompt or passed to explain(), as lexemes.
Statements == {
    <<"int", " ", "x">>,
    <<"foo", " ", "x">>,
    <<"bar", " ", "x">>,
    <<"foo", " ", "foo">>,
    <<"struct", " ", "foo", " ", "x">>,
    <<"const", " ", "foo", " ", "*", "bar">>,
    <<"typedef", " ", "int", " ", "foo">>,
    <<"typedef", " ", "foo", " ", "bar">>,
    <<"typedef", " ", "int", " ", "bar", "[", "2", "]">>,
    <<"typedef", " ", "int">>,
    <<"int", " ", "*", "p", "[", "10", "]">>,
    <<"int", " ", "(", "*", "p", ")", "[", "10", "]">>,
    <<"char", " ", "*", "foo", "[", "3", "]", "[", "2", "]">>,
    <<"int", " ", "x", "[", "]", "(", ")">>,
    <<"int", " ", "x", "(", "int", ",", " ", "foo", " ", "p", ")">>,
    <<"int", " ", "x", " ", "=", " ", "5">>,
    <<"typedef", " ", "int", " ", "foo", "(", "foo", ")">> }

\* The most writes one iteration of the loop makes: those of the Err arm for
\* one error (the colour, the header, the error, the reset).
MaxWrites == 4

\* A line holds one statement, one statement and a semicolon, or two
\* statements separated by a semicolon and a space.
Lines ==
    Statements
    \cup {a \o <<";">> : a \in Statements}
    \cup {a \o <<";", " ">> \o b : a, b \in Statements}

\* What explain() of the page is called with: a line or the empty string.
Sources == Lines \cup {<<>>}

----------------------------------------------------------------------------
(* The programs: the read-eval-print loop of cli/src/main.rs, explain() of *)
(* wasm/src/lib.rs, and a direct call of the explainer.                    *)

VARIABLES
    parser_state,   \* main: the State kept across the lines of a session
    pc,             \* main: "readline", "continue" (end of an iteration), "exited"
    exit_code,      \* main: None while running, then the ExitCode
    call,           \* the call in progress: its input, the state before, its
                    \* result, and the write that failed (0 when none did)
    stdout,         \* what the iteration printed on standard output, by line
    stderr,         \* what the iteration printed on standard error, by line
    ret,            \* what explain() returned
    walk            \* a direct call of the explainer: its input and result

vars == <<parser_state, pc, exit_code, call, stdout, stderr, ret, walk>>

NoCall == [op |-> "none"]
NoWalk == [stage |-> "none"]

Init ==
    /\ parser_state = DefaultState
    /\ pc = "readline"
    /\ exit_code = None
    /\ call = NoCall
    /\ stdout = <<>>
    /\ stderr = <<>>
    /\ ret = None
    /\ walk = NoWalk

\* explanation_lines with the semicolon between the lines only: none after
\* the last.
explanation_lines_separated(explained) ==
    [i \in 1..Len(explained) |->
        cli_format(explained[i].msg) \o (IF i < Len(explained) THEN ";" ELSE "")]

\* The Ok(decls) arm of main: one explanation per line, each followed by ";"
\* unless there is exactly one.  explained holds explain_declaration of each
\* declaration.
explanation_lines(explained) ==
    IF Len(explained) = 1 THEN <<cli_format(explained[1].msg)>>
    ELSE [i \in 1..Len(explained) |-> cli_format(explained[i].msg) \o ";"]

\* The Err(errs) arm of main: a header, then one line per error.
error_lines(errs) ==
    <<[kind |-> "header", text |-> "Error(s) parsing declaration:"]>>
    \o [i \in 1..Len(errs) |-> [kind |-> "error", err |-> errs[i]]]

\* The writes of the Err(errs) arm in their order: stderr.set_color, the
\* lines, stderr.reset.
error_writes(errs) ==
    <<[kind |-> "set_color"]>> \o error_lines(errs) \o <<[kind |-> "reset"]>>

\* The lines among the writes ws: set_color and reset print no line.
written_lines(ws) == SelectSeq(ws, LAMBDA w : w.kind \in {"header", "error"})

\* The number of writes of the match on the result r: formatter.format with
\* its writeln! for each declaration, or the writes of the Err arm.
writes(r) == IF r.ok THEN Len(r.decls) ELSE Len(error_writes(r.errs))

\* Some explain_declaration of the list panicked.
panics(explained) == \E i \in 1..Len(explained) : explained[i].panicked

\* MatchResult that ends the process with a failure when the parse failed.
MatchResult_fatal(r, explained, fail) ==
    IF ~r.ok
    THEN /\ pc' = "exited" /\ exit_code' = Some("FAILURE")
         /\ stdout' = <<>> /\ stderr' = error_lines(r.errs)
    ELSE /\ pc' = "continue" /\ exit_code' = exit_code
         /\ stdout' = explanation_lines(explained)
         /\ stderr' = <<>>

\* The match on the result r of the parse: the explanations are printed on
\* standard output, or the errors on standard error.  Every write is
\* unwrapped or made by eprintln!: when write number fail fails (0: none
\* does) the process panics with the writes before it done; so it does when
\* explain_declaration panics.  The line in progress when a write fails is
\* not counted as printed, nor is the message of the panic.
MatchResult(r, explained, fail) ==
    IF r.ok /\ panics(explained)
    THEN /\ pc' = "exited" /\ exit_code' = Some("PANIC")
         /\ stdout' = <<>> /\ stderr' = <<>>
    ELSE IF fail > 0
    THEN /\ pc' = "exited" /\ exit_code' = Some("PANIC")
         /\ stdout' = IF r.ok
                      THEN SubSeq(explanation_lines(explained), 1, fail - 1)
                      ELSE <<>>
         /\ stderr' = IF r.ok THEN <<>>
                      ELSE written_lines(SubSeq(error_writes(r.errs), 1, fail - 1))
    ELSE /\ pc' = "continue" /\ exit_code' = exit_code
         /\ stdout' = IF r.ok THEN explanation_lines(explained) ELSE <<>>
         /\ stderr' = IF r.ok THEN <<>> ELSE error_lines(r.errs)

\* The line parsed into r with the state of the session, which keeps what
\* the parse left in it.
ParseLine(line, r, fail) ==
    /\ Len(r.state) <= MaxTypes
    /\ fail <= writes(r)
    /\ parser_state' = r.state
    /\ call' = [op |-> "readline", line |-> line, before |-> parser_state,
                ok |-> r.ok, decls |-> r.decls, errs |-> r.errs, fail |-> fail]
    /\ MatchResult(r, explain_all(r.decls), fail)

\* rl.readline returns a line that is neither empty nor "@license": the line
\* is parsed with the state of the session and explained or reported; fail is
\* the number of the write that fails, 0 when every write succeeds.
ReadLine(line, fail) ==
    /\ pc = "readline" /\ call = NoCall
    /\ ParseLine(line, parse_with_state(line, parser_state), fail)
    /\ UNCHANGED <<ret, walk>>

\* rl.readline returns the empty line: nothing happens.
EmptyLine ==
    /\ pc = "readline" /\ call = NoCall
    /\ call' = [op |-> "empty", line |-> <<>>, before |-> parser_state, fail |-> 0]
    /\ pc' = "continue"
    /\ UNCHANGED <<parser_state, exit_code, stdout, stderr, ret, walk>>

\* rl.readline returns "@license": the license is printed on standard error
\* by one eprintln!, which panics when the write fails (fail = 1).
License(fail) ==
    /\ pc = "readline" /\ call = NoCall
    /\ call' = [op |-> "license", line |-> <<"@license">>, before |-> parser_state,
                fail |-> fail]
    /\ IF fail > 0
       THEN /\ stderr' = <<>>
            /\ pc' = "exited" /\ exit_code' = Some("PANIC")
       ELSE /\ stderr' = <<[kind |-> "license", text |-> "This program is free software"]>>
            /\ pc' = "continue" /\ exit_code' = exit_code
    /\ UNCHANGED <<parser_state, stdout, ret, walk>>

\* The end of an iteration of the loop: its locals are dropped.
Continue ==
    /\ pc = "continue"
    /\ pc' = "readline"
    /\ call' = NoCall /\ stdout' = <<>> /\ stderr' = <<>>
    /\ UNCHANGED <<parser_state, exit_code, ret, walk>>

\* rl.readline fails with Interrupted: on a terminal a message is printed
\* by println!, which panics when the write fails (fail = 1).
Interrupted(is_terminal, fail) ==
    /\ pc = "readline" /\ call = NoCall
    /\ fail > 0 => is_terminal
    /\ stdout' = IF is_terminal /\ fail = 0 THEN <<"Interrupted; exiting...">> ELSE <<>>
    /\ pc' = "exited"
    /\ exit_code' = IF fail > 0 THEN Some("PANIC") ELSE Some("SUCCESS")
    /\ UNCHANGED <<parser_state, call, stderr, ret, walk>>

\* rl.readline fails with Eof.
Eof ==
    /\ pc = "readline" /\ call = NoCall
    /\ pc' = "exited" /\ exit_code' = Some("SUCCESS")
    /\ UNCHANGED <<parser_state, call, stdout, stderr, ret, walk>>

\* rl.readline fails with any other error: the error is printed by
\* eprintln!, which panics when the write fails (fail = 1).
ReadError(fail) ==
    /\ pc = "readline" /\ call = NoCall
    /\ stderr' = IF fail > 0 THEN <<>>
                 ELSE <<[kind |-> "read", text |-> "Error reading line: "]>>
    /\ pc' = "exited"
    /\ exit_code' = IF fail > 0 THEN Some("PANIC") ELSE Some("FAILURE")
    /\ UNCHANGED <<parser_state, call, stdout, ret, walk>>

\* What explain() returns for the parse r: the explanations as one text, or
\* the errors.
ExplainResult(src, r, explained) ==
    /\ call' = [op |-> "explain", line |-> src, before |-> DefaultState,
                ok |-> r.ok, decls |-> r.decls, errs |-> r.errs]
    /\ ret' = IF r.ok
              THEN IF panics(explained) THEN Some([panicked |-> TRUE])
                   ELSE Some([panicked |-> FALSE, ok |-> TRUE,
                              value |-> explain_declarations(explained)])
              ELSE Some([panicked |-> FALSE, ok |-> FALSE, value |-> r.errs])

\* The source parsed with a fresh state.
ExplainParsed(src, r) == ExplainResult(src, r, explain_all(r.decls))

\* explain(formatter, src) of the page: a parse with a fresh state.
Explain(src) ==
    /\ call = NoCall
    /\ ExplainParsed(src, parse(src))
    /\ UNCHANGED <<parser_state, pc, exit_code, stdout, stderr, walk>>

\* explain() has returned to the page.
ExplainReturn ==
    /\ call # NoCall /\ call.op = "explain"
    /\ call' = NoCall /\ ret' = None
    /\ UNCHANGED <<parser_state, pc, exit_code, stdout, stderr, walk>>

Next ==
    \/ \E line \in Lines, fail \in 0..MaxWrites : ReadLine(line, fail)
    \/ EmptyLine
    \/ \E fail \in 0..1 : License(fail)
    \/ Continue
    \/ \E is_terminal \in BOOLEAN, fail \in 0..1 : Interrupted(is_terminal, fail)
    \/ Eof
    \/ \E fail \in 0..1 : ReadError(fail)
    \/ \E src \in Sources : Explain(src)
    \/ ExplainReturn

Spec == Init /\ [][Next]_vars

----------------------------------------------------------------------------
(* The explainer called directly on declarations that need not come from  *)
(* the parser.                                                            *)

IntType == QualifiedType({}, Primitive("int"))

\* The base types of the declarations explained.
BaseTypes ==
    {IntType, QualifiedType({"Const"}, Custom("foo")),
     QualifiedType({"Typedef"}, Primitive("int")),
     QualifiedType({"Typedef", "Volatile"}, Record("struct", "x"))}

PtrQualifiers == {{}, {"Const"}}

ArraySizes == {None, Some(3)}

ParameterLists ==
    {<<>>, <<Declaration(IntType, Array(Ident("p"), None))>>,
     <<Declaration(IntType, Ident("x"))>>}

RECURSIVE Declarators(_)
\* The declarator trees of at most the given depth.
Declarators(depth) ==
    IF depth = 0 THEN {Anonymous, Ident("x")}
    ELSE LET inner == Declarators(depth - 1)
         IN  {Anonymous, Ident("x")}
             \cup {Ptr(d, q) : d \in inner, q \in PtrQualifiers}
             \cup {Array(d, size) : d \in inner, size \in ArraySizes}
             \cup {Function(d, params) : d \in inner, params \in ParameterLists}

InitExplain ==
    /\ parser_state = DefaultState
    /\ pc = "readline"
    /\ exit_code = None
    /\ call = NoCall
    /\ stdout = <<>>
    /\ stderr = <<>>
    /\ ret = None
    /\ \E base_type \in BaseTypes, d \in Declarators(MaxDepth) :
          walk = [stage |-> "input", decl |-> Declaration(base_type, d)]

\* explain_declarator(&decl.declarator, skip_name)
ExplainDeclarator(skip_name) ==
    /\ walk.stage = "input"
    /\ walk' = [stage |-> "declarator", decl |-> walk.decl, skip_name |-> skip_name,
                result |-> explain_declarator(walk.decl.declarator, skip_name)]
    /\ UNCHANGED <<parser_state, pc, exit_code, call, stdout, stderr, ret>>

\* explain_declaration(&decl)
ExplainDeclaration ==
    /\ walk.stage = "input"
    /\ walk' = [stage |-> "declaration", decl |-> walk.decl,
                result |-> explain_declaration(walk.decl)]
    /\ UNCHANGED <<parser_state, pc, exit_code, call, stdout, stderr, ret>>

NextExplain ==
    \/ \E skip_name \in BOOLEAN : ExplainDeclarator(skip_name)
    \/ ExplainDeclaration

SpecExplain == InitExplain /\ [][NextExplain]_vars

----------------------------------------------------------------------------
(* The explainer called directly on every type the parser can produce.     *)

\* The names of the records and of the custom types explained.
TypeNames == {"foo", "x", "point", "bus", "Item"}

\* Every type: the primitive spellings, and the records and custom types of
\* the names above.
AllTypes ==
    {Primitive(stringify(PrimitiveSpellings[i])) : i \in DOMAIN PrimitiveSpellings}
    \cup {Record(kind, n) : kind \in RecordKind, n \in TypeNames}
    \cup {Custom(n) : n \in TypeNames}

\* The qualifier sets of a base type, with and without Typedef.
QualifierSets == SUBSET {"Const", "Volatile", "Restrict", "Typedef"}

\* The declarators every type is explained with: singular and plural ends.
TypeDeclarators ==
    {Anonymous, Ident("x"), Ptr(Ident("x"), {}),
     Array(Ident("x"), None), Ptr(Array(Anonymous, Some(3)), {"Const"})}

\* The parameters of the functions explained.
Parameters ==
    {Declaration(IntType, Ident("p")),
     Declaration(QualifiedType({"Const"}, Primitive("char")), Ptr(Anonymous, {})),
     Declaration(QualifiedType({}, Custom("foo")), Array(Ident("x"), None))}

\* The longest parameter list explained.
MaxParams == 4

RECURSIVE ParameterListsOf(_)
\* The parameter lists of exactly the given length.
ParameterListsOf(len) ==
    IF len = 0 THEN {<<>>}
    ELSE {Append(l, d) : l \in ParameterListsOf(len - 1), d \in Parameters}

\* The functions explained: every list of up to MaxParams parameters, on a
\* named and on an anonymous function and on an array of functions.
FunctionDeclarators ==
    {Function(f, l) : f \in {Ident("x"), Anonymous, Array(Ident("x"), None)},
                      l \in UNION {ParameterListsOf(len) : len \in 0..MaxParams}}

InitTypes ==
    /\ parser_state = DefaultState
    /\ pc = "readline"
    /\ exit_code = None
    /\ call = NoCall
    /\ stdout = <<>>
    /\ stderr = <<>>
    /\ ret = None
    /\ \/ \E ty \in AllTypes, quals \in QualifierSets, d \in TypeDeclarators :
             walk = [stage |-> "input",
                     decl |-> Declaration(QualifiedType(quals, ty), d)]
       \/ \E quals \in {{}, {"Typedef"}}, d \in FunctionDeclarators :
             walk = [stage |-> "input",
                     decl |-> Declaration(QualifiedType(quals, Primitive("int")), d)]

SpecTypes == InitTypes /\ [][NextExplain]_vars

----------------------------------------------------------------------------
(* The parser called directly on sources of a few families, and the        *)
(* explainer on what it returns.                                           *)

\* The longest run of qualifier keywords in a source.
MaxQualifiers == 3

RECURSIVE KeywordRuns(_)
\* The runs of at most the given number of qualifier keywords, each keyword
\* followed by a space.
KeywordRuns(len) ==
    IF len = 0 THEN {<<>>}
    ELSE KeywordRuns(len - 1)
         \cup {run \o <<kw, " ">> : run \in KeywordRuns(len - 1),
                                    kw \in DOMAIN TypeQualifier}

\* An int pointer named x, with a run of qualifiers before the type and one
\* after the star.
QualifierSources ==
    {base \o <<"int", " ", "*">> \o ptr \o <<"x">> :
        base \in KeywordRuns(MaxQualifiers), ptr \in KeywordRuns(MaxQualifiers)}

\* What a function suffix follows, as written and as parsed.
FunctionHeads ==
    {[text |-> <<"f">>, decl |-> Ident("f")],
     [text |-> <<"(", "*", "f", ")">>, decl |-> Ptr(Ident("f"), {})],
     [text |-> <<"f", "[", "3", "]">>, decl |-> Array(Ident("f"), Some(3))],
     [text |-> <<"f", "(", "char", ")">>,
      decl |-> Function(Ident("f"),
                        <<Declaration(QualifiedType({}, Primitive("char")), Anonymous)>>)]}

\* A parameter of type void with the given declarator.
VoidParameter(d) == Declaration(QualifiedType({}, Primitive("void")), d)

\* What the parentheses of a function suffix hold, as written, and the
\* parameters it stands for.
FunctionParentheses ==
    {[text |-> <<>>, params |-> <<>>],
     [text |-> <<" ">>, params |-> <<>>],
     [text |-> <<"void">>, params |-> <<>>],
     [text |-> <<" ", "void", " ">>, params |-> <<>>],
     [text |-> <<"void", " ", "*">>, params |-> <<VoidParameter(Ptr(Anonymous, {}))>>],
     [text |-> <<"void", " ", "x">>, params |-> <<VoidParameter(Ident("x"))>>],
     [text |-> <<"void", ",">>, params |-> <<VoidParameter(Anonymous)>>],
     [text |-> <<"void", "[", "]">>, params |-> <<VoidParameter(Array(Anonymous, None))>>],
     [text |-> <<"void", " ", "g", "(", "void", ")">>,
      params |-> <<VoidParameter(Function(Ident("g"), <<>>))>>],
     [text |-> <<"void", ",", " ", "void">>,
      params |-> <<VoidParameter(Anonymous), VoidParameter(Anonymous)>>],
     [text |-> <<"void", " ", "*", "p", ",", " ", "int", " ", "n">>,
      params |-> <<VoidParameter(Ptr(Ident("p"), {})),
                   Declaration(QualifiedType({}, Primitive("int")), Ident("n"))>>],
     [text |-> <<"const", " ", "void">>,
      params |-> <<Declaration(QualifiedType({"Const"}, Primitive("void")), Anonymous)>>]}

\* The source of an int declaration with the function suffix on the head.
FunctionSource(head, parens) ==
    <<"int", " ">> \o head.text \o <<"(">> \o parens.text \o <<")">>

\* int declarations that end in a function suffix.
FunctionSources ==
    {FunctionSource(head, parens) : head \in FunctionHeads, parens \in FunctionParentheses}

\* Three declarations as written, and as parsed.
StatementTexts ==
    <<<<"int", " ", "a">>, <<"const", " ", "char", " ", "b">>,
      <<"struct", " ", "foo", " ", "c">>>>

StatementDeclarations ==
    <<Declaration(QualifiedType({}, Primitive("int")), Ident("a")),
      Declaration(QualifiedType({"Const"}, Primitive("char")), Ident("b")),
      Declaration(QualifiedType({}, Record("struct", "foo")), Ident("c"))>>

\* Runs of semicolons, with and without whitespace: those that may be empty,
\* and those of at least one semicolon.
SemicolonRuns == {<<>>, <<";">>, <<";", " ", ";">>, <<" ", ";", " ">>}

SeparatorRuns == {<<";">>, <<";", " ">>, <<";", ";", ";", " ">>}

\* The first count statements with sep1 after the first and sep2 after the
\* second, between the runs lead and trail.
SemicolonSource(lead, count, sep1, sep2, trail) ==
    lead
    \o (IF count >= 1 THEN StatementTexts[1] ELSE <<>>)
    \o (IF count >= 2 THEN sep1 \o StatementTexts[2] ELSE <<>>)
    \o (IF count >= 3 THEN sep2 \o StatementTexts[3] ELSE <<>>)
    \o trail

SemicolonSources ==
    {SemicolonSource(lead, count, sep1, sep2, trail) :
        lead \in SemicolonRuns, count \in 0..3,
        sep1 \in SeparatorRuns, sep2 \in SeparatorRuns, trail \in SemicolonRuns}

RECURSIVE Spaced(_)
\* The words as lexemes, each followed by a space.
Spaced(words) ==
    IF words = <<>> THEN <<>> ELSE <<words[1], " ">> \o Spaced(Tail(words))

\* format!("{type} foo") for a spelling of a primitive type.
SpellingSource(words) == Spaced(words) \o <<"foo">>

SpellingSources == {SpellingSource(PrimitiveSpellings[i]) : i \in DOMAIN PrimitiveSpellings}

\* Where an array size is written: the lexemes before the literal, those
\* after it, and the declarations the source stands for given the size.
ArrayFrames ==
    {[pre |-> <<"int", " ", "arr", "[">>, post |-> <<"]">>, id |-> "arr"],
     [pre |-> <<"int", " ", "arr", "[", " ">>, post |-> <<" ", "]">>, id |-> "arr"],
     [pre |-> <<"int", " ", "arr", "[", "  ">>, post |-> <<"]">>, id |-> "arr"],
     [pre |-> <<"int", " ", "arr", "[", "\t", "\n">>, post |-> <<"\t", "]">>, id |-> "arr"],
     [pre |-> <<"int", " ", "arr", "[", "10", "]", "[">>, post |-> <<"]">>, id |-> "arr2"],
     [pre |-> <<"char", " ", "*", "m", "[", "3", "]", "[">>, post |-> <<"]">>, id |-> "m"],
     [pre |-> <<"int", " ", "f", "(", "char", " ", "a", "[">>, post |-> <<"]", ")">>,
      id |-> "f"],
     [pre |-> <<"int", " ", "a", ";", " ", "int", " ", "b", "[">>, post |-> <<"]", ";">>,
      id |-> "b"]}

ArrayDeclarations(frame, size) ==
    CASE frame.id = "arr" ->
            <<Declaration(QualifiedType({}, Primitive("int")), Array(Ident("arr"), size))>>
      [] frame.id = "arr2" ->
            <<Declaration(QualifiedType({}, Primitive("int")),
                          Array(Array(Ident("arr"), Some(10)), size))>>
      [] frame.id = "m" ->
            <<Declaration(QualifiedType({}, Primitive("char")),
                          Ptr(Array(Array(Ident("m"), Some(3)), size), {}))>>
      [] frame.id = "f" ->
            <<Declaration(QualifiedType({}, Primitive("int")),
                Function(Ident("f"),
                    <<Declaration(QualifiedType({}, Primitive("char")),
                                  Array(Ident("a"), size))>>))>>
      [] frame.id = "b" ->
            <<Declaration(QualifiedType({}, Primitive("int")), Ident("a")),
              Declaration(QualifiedType({}, Primitive("int")), Array(Ident("b"), size))>>

\* The values of the literals that are at most usize::MAX.
LiteralValue ==
    ("0" :> 0) @@ ("1" :> 1) @@ ("2" :> 2) @@ ("3" :> 3) @@ ("5" :> 5)
    @@ ("10" :> 10) @@ ("20" :> 20) @@ ("42" :> 42)
    @@ ("2147483647" :> 2147483647)

\* The literals written as array sizes: the ones above, usize::MAX + 1 and a
\* literal of 21 digits.
Literals ==
    DOMAIN LiteralValue \cup {"18446744073709551616", "184467440737095516150"}

ArraySource(frame, literal) == frame.pre \o <<literal>> \o frame.post

ArraySources ==
    {ArraySource(frame, literal) : frame \in ArrayFrames, literal \in Literals}

\* The most pointer prefixes of a pointer source.
MaxStars == 2

\* The base types of the pointer sources, as written and as parsed.
PointerBases ==
    {[text |-> <<"int">>, ty |-> QualifiedType({}, Primitive("int")),
      one |-> "an int", many |-> "ints"],
     [text |-> <<"char">>, ty |-> QualifiedType({}, Primitive("char")),
      one |-> "a char", many |-> "chars"],
     [text |-> <<"const", " ", "char">>, ty |-> QualifiedType({"Const"}, Primitive("char")),
      one |-> "a const char", many |-> "const chars"],
     [text |-> <<"const", " ", "int">>, ty |-> QualifiedType({"Const"}, Primitive("int")),
      one |-> "a const int", many |-> "const ints"]}

\* What is written after one '*': nothing or one qualifier.
StarQualifiers ==
    {[text |-> <<>>, quals |-> {}, words |-> ""],
     [text |-> <<"const", " ">>, quals |-> {"Const"}, words |-> "const "],
     [text |-> <<"volatile", " ">>, quals |-> {"Volatile"}, words |-> "volatile "]}

RECURSIVE StarRuns(_)
\* The runs of exactly the given number of pointer prefixes, in source order.
StarRuns(len) ==
    IF len = 0 THEN {<<>>}
    ELSE {Append(run, q) : run \in StarRuns(len - 1), q \in StarQualifiers}

PointerNames == {"arr", "p", "str", "x"}

\* The array suffix of a pointer source: none, unsized or sized.
PointerSuffixes ==
    {[text |-> <<>>, array |-> FALSE, size |-> None, words |-> ""],
     [text |-> <<"[", "]">>, array |-> TRUE, size |-> None, words |-> ""],
     [text |-> <<"[", "10", "]">>, array |-> TRUE, size |-> Some(10), words |-> "10 "]}

RECURSIVE StarText(_)
\* "*" and its qualifiers, for every prefix of the run, as written.
StarText(run) ==
    IF run = <<>> THEN <<>> ELSE <<"*">> \o run[1].text \o StarText(Tail(run))

\* base, pointer prefixes, name and suffix as one source text.
PointerSource(base, run, id, suffix) ==
    base.text \o <<" ">> \o StarText(run) \o <<id>> \o suffix.text

PointerSources ==
    {PointerSource(base, run, id, suffix) :
        base \in PointerBases, run \in UNION {StarRuns(len) : len \in 0..MaxStars},
        id \in PointerNames, suffix \in PointerSuffixes}

\* What is written after the typedef keyword of a typedef with no name, the
\* declaration it is without the Typedef qualifier, and its words.
AnonymousForms ==
    {[text |-> <<"int">>, decl |-> Declaration(IntType, Anonymous), words |-> "an int"],
     [text |-> <<"char", " ", "*">>,
      decl |-> Declaration(QualifiedType({}, Primitive("char")), Ptr(Anonymous, {})),
      words |-> "a pointer to a char"],
     [text |-> <<"const", " ", "char", " ", "*", "const">>,
      decl |-> Declaration(QualifiedType({"Const"}, Primitive("char")),
                           Ptr(Anonymous, {"Const"})),
      words |-> "a const pointer to a const char"],
     [text |-> <<"int", " ", "[", "3", "]">>,
      decl |-> Declaration(IntType, Array(Anonymous, Some(3))),
      words |-> "an array of 3 ints"],
     [text |-> <<"int", " ", "(", "*", ")", "(", "int", " ", "a", ")">>,
      decl |-> Declaration(IntType,
                   Function(Ptr(Anonymous, {}), <<Declaration(IntType, Ident("a"))>>)),
      words |-> "a pointer to a function that takes (an int named a) and returns an int"],
     [text |-> <<"struct", " ", "foo">>,
      decl |-> Declaration(QualifiedType({}, Record("struct", "foo")), Anonymous),
      words |-> "a struct foo"]}

\* What is written before the typedef with no name, the declarations it is
\* and the names it registers.
AnonymousPrefixes ==
    {[text |-> <<>>, decls |-> <<>>, names |-> <<>>],
     [text |-> <<"int", " ", "x", ";", " ">>,
      decls |-> <<Declaration(IntType, Ident("x"))>>, names |-> <<>>],
     [text |-> <<"typedef", " ", "int", " ", "foo", ";", " ">>,
      decls |-> <<Declaration(QualifiedType({"Typedef"}, Primitive("int")), Ident("foo"))>>,
      names |-> <<"foo">>]}

AnonymousEnds == {<<>>, <<";">>, <<" ">>}

AnonymousTypedefSource(prefix, form, end) ==
    prefix.text \o <<"typedef", " ">> \o form.text \o end

AnonymousTypedefSources ==
    {AnonymousTypedefSource(prefix, form, end) :
        prefix \in AnonymousPrefixes, form \in AnonymousForms, end \in AnonymousEnds}

\* The names the typedefs that use their own name declare.
SelfNames == {"foo", "bar"}

\* What is written after the typedef keyword of a typedef of the name n that
\* uses n as a type, and the declaration it is when n is a type.
SelfForms(n) ==
    {[text |-> <<n, " ", n>>,
      decl |-> Declaration(QualifiedType({"Typedef"}, Custom(n)), Ident(n))],
     [text |-> <<"const", " ", n, " ", "*", n, "[", "3", "]">>,
      decl |-> Declaration(QualifiedType({"Typedef", "Const"}, Custom(n)),
                           Ptr(Array(Ident(n), Some(3)), {}))],
     [text |-> <<"int", " ", n, "(", n, ")">>,
      decl |-> Declaration(QualifiedType({"Typedef"}, Primitive("int")),
                   Function(Ident(n),
                       <<Declaration(QualifiedType({}, Custom(n)), Anonymous)>>))],
     [text |-> <<"int", " ", n, "(", "int", " ", "a", ",", " ", n, " ", "*", "p", ")">>,
      decl |-> Declaration(QualifiedType({"Typedef"}, Primitive("int")),
                   Function(Ident(n),
                       <<Declaration(IntType, Ident("a")),
                         Declaration(QualifiedType({}, Custom(n)), Ptr(Ident("p"), {}))>>))],
     [text |-> <<"int", " ", "(", "*", n, ")", "(", "int", " ", "(", "*", ")", "(", n, ")",
                 ")">>,
      decl |-> Declaration(QualifiedType({"Typedef"}, Primitive("int")),
                   Function(Ptr(Ident(n), {}),
                       <<Declaration(IntType,
                           Function(Ptr(Anonymous, {}),
                               <<Declaration(QualifiedType({}, Custom(n)),
                                             Anonymous)>>))>>))]}

\* What is written before such a typedef, the declarations it is and the
\* names it registers.
SelfPrefixes ==
    {[text |-> <<>>, decls |-> <<>>, names |-> <<>>],
     [text |-> <<"int", " ", "foo", ";", " ">>,
      decls |-> <<Declaration(IntType, Ident("foo"))>>, names |-> <<>>],
     [text |-> <<"typedef", " ", "int", " ", "foo", ";", " ">>,
      decls |-> <<Declaration(QualifiedType({"Typedef"}, Primitive("int")), Ident("foo"))>>,
      names |-> <<"foo">>],
     [text |-> <<"typedef", " ", "char", " ", "*", "bar", ";">>,
      decls |-> <<Declaration(QualifiedType({"Typedef"}, Primitive("char")),
                              Ptr(Ident("bar"), {}))>>,
      names |-> <<"bar">>]}

SelfTypedefSource(prefix, form) == prefix.text \o <<"typedef", " ">> \o form.text

SelfTypedefSources ==
    {SelfTypedefSource(prefix, form) :
        prefix \in SelfPrefixes, form \in UNION {SelfForms(n) : n \in SelfNames}}

\* The sources given to the parser.
ParseSources ==
    QualifierSources \cup FunctionSources \cup SemicolonSources \cup SpellingSources
    \cup ArraySources \cup PointerSources \cup AnonymousTypedefSources
    \cup SelfTypedefSources

InitParse ==
    /\ parser_state = DefaultState
    /\ pc = "readline"
    /\ exit_code = None
    /\ call = NoCall
    /\ stdout = <<>>
    /\ stderr = <<>>
    /\ ret = None
    /\ \E src \in ParseSources : walk = [stage |-> "source", src |-> src]

\* parser().parse(src).into_result()
Parse ==
    /\ walk.stage = "source"
    /\ walk' = [stage |-> "parsed", src |-> walk.src, r |-> parse(walk.src)]
    /\ UNCHANGED <<parser_state, pc, exit_code, call, stdout, stderr, ret>>

\* explain_declaration of every declaration returned, formatted as plain text.
ExplainEach ==
    /\ walk.stage = "parsed" /\ walk.r.ok
    /\ walk' = [stage |-> "explained", src |-> walk.src, r |-> walk.r,
                texts |-> [i \in DOMAIN walk.r.decls |->
                             PlainText(explain_declaration(walk.r.decls[i]).msg)]]
    /\ UNCHANGED <<parser_state, pc, exit_code, call, stdout, stderr, ret>>

\* What the two front ends write for the declarations returned: the lines of
\* the Ok arm of main and the text of explain_declarations.
Emit ==
    /\ walk.stage = "explained"
    /\ walk' = [stage |-> "emitted", src |-> walk.src, r |-> walk.r,
                texts |-> walk.texts,
                lines |-> explanation_lines(explain_all(walk.r.decls)),
                html |-> explain_declarations(explain_all(walk.r.decls))]
    /\ UNCHANGED <<parser_state, pc, exit_code, call, stdout, stderr, ret>>

NextParse ==
    \/ Parse
    \/ ExplainEach
    \/ Emit

SpecParse == InitParse /\ [][NextParse]_vars

----------------------------------------------------------------------------
(* The errors a parse can return, and their text.                          *)

\* The longest list of expected patterns.
MaxExpected == 4

ExpectedPatterns ==
    {Token("["), Label("type qualifier"), Identifier("typedef"), AnyToken, SomethingElse,
     EndOfInput}

RECURSIVE ExpectedLists(_)
ExpectedLists(len) ==
    IF len = 0 THEN {<<>>}
    ELSE ExpectedLists(len - 1)
         \cup {Append(e, pattern) : e \in {l \in ExpectedLists(len - 1) : Len(l) = len - 1},
                                    pattern \in ExpectedPatterns}

ErrorSpans == {<<6, 7>>, <<9, 9>>, <<8, 29>>}

ErrorValues ==
    {expected_found(span[1], span[2], expected, found) :
        span \in ErrorSpans, expected \in ExpectedLists(MaxExpected),
        found \in {None, Some("="), Some("x")}}
    \cup {[at |-> span[1], end |-> span[2], reason |-> reason] :
            span \in ErrorSpans,
            reason \in {"number too large to fit in target type",
                        "\"foo\" is used as a type but has not been defined"}}

InitErrors ==
    /\ parser_state = DefaultState
    /\ pc = "readline"
    /\ exit_code = None
    /\ call = NoCall
    /\ stdout = <<>>
    /\ stderr = <<>>
    /\ ret = None
    /\ \E err \in ErrorValues : walk = [stage |-> "error", err |-> err]

\* err.to_string()
to_string ==
    /\ walk.stage = "error"
    /\ walk' = [stage |-> "rendered", err |-> walk.err, text |-> rich_wrapper_fmt(walk.err)]
    /\ UNCHANGED <<parser_state, pc, exit_code, call, stdout, stderr, ret>>

SpecErrors == InitErrors /\ [][to_string]_vars

----------------------------------------------------------------------------
(* What the properties below say about a call: read off the line and the   *)
(* declarations, not computed by the parser.                               *)

Range(seq) == {seq[i] : i \in DOMAIN seq}

IsPrefix(a, b) == Len(a) <= Len(b) /\ SubSeq(b, 1, Len(a)) = a

\* The call in progress went through the parser.
Parsed == call.op \in {"readline", "explain"}

\* The words with a meaning of their own in the grammar.
Keywords ==
    {"typedef"} \cup DOMAIN TypeQualifier \cup RecordKind
    \cup UNION {Range(PrimitiveSpellings[i]) : i \in DOMAIN PrimitiveSpellings}

RECURSIVE TypedefNames(_)
\* The names the typedef declarations of a list declare, in order.
TypedefNames(decls) ==
    IF decls = <<>> THEN <<>>
    ELSE (IF "Typedef" \in Head(decls).base_type.quals
             /\ name(Head(decls).declarator) # None
          THEN name(Head(decls).declarator) ELSE <<>>)
         \o TypedefNames(Tail(decls))

RECURSIVE CustomNames(_)
RECURSIVE CustomNamesIn(_)
\* The names used as Type::Custom in a declaration, parameters included.
CustomNames(decl) ==
    (IF decl.base_type.ty.k = "Custom" THEN {decl.base_type.ty.name} ELSE {})
    \cup CustomNamesIn(decl.declarator)
CustomNamesIn(d) ==
    CASE d.k \in {"Anonymous", "Ident"} -> {}
      [] d.k \in {"Ptr", "Array"} -> CustomNamesIn(d.inner)
      [] d.k = "Function" ->
            CustomNamesIn(d.func)
            \cup UNION {CustomNames(d.params[i]) : i \in DOMAIN d.params}

\* The positions at which the statements of a line start.
StatementStarts(line) ==
    {p \in 1..Len(line) : p = 1 \/ line[p - 1] = ";"}

\* The start of the i-th statement of a line.
StatementStart(line, i) ==
    CHOOSE p \in StatementStarts(line) :
        Cardinality({q \in StatementStarts(line) : q <= p}) = i

\* The start of the statement that holds position p.
StatementOf(line, p) == SetMax({q \in StatementStarts(line) : q <= p})

\* The end of the statement that starts at p.
StatementEnd(line, p) ==
    IF \E q \in p..Len(line) : line[q] = ";"
    THEN (CHOOSE q \in p..Len(line) :
            line[q] = ";" /\ \A r \in p..(q - 1) : line[r] # ";") - 1
    ELSE Len(line)

\* The statement at p starts with the typedef keyword.
IsTypedefStatement(line, p) == At(line, skip_ws(line, p)) = "typedef"

\* The positions at which a declaration starts: a statement, or a parameter
\* after the parenthesis of a function suffix or after a comma.
DeclarationStarts(line) ==
    StatementStarts(line)
    \cup {p \in 3..Len(line) :
            \/ line[p - 1] = ","
            \/ line[p - 1] = "(" /\ (IsWord(line[p - 2]) \/ line[p - 2] \in {"]", ")"})}

\* The position of the type of the declaration that starts at p: after the
\* typedef keyword of a statement and the qualifiers.
TypePosition(line, p) ==
    LET q == skip_ws(line, p)
        r == IF p \in StatementStarts(line) /\ At(line, q) = "typedef"
             THEN skip_ws(line, q + 1) ELSE q
    IN  skip_ws(line, qualifiers(line, r).pos)

\* The positions of a line that hold an identifier in type position.
TypeIdents(line) ==
    {q \in {TypePosition(line, p) : p \in DeclarationStarts(line)} :
        IsWord(At(line, q)) /\ At(line, q) \notin Keywords}

\* The registry when the parser reaches the statement that starts at p.
RegistryBefore(line, before, p) == parse_with_state(SubSeq(line, 1, p - 1), before)

\* The registry when the parser reaches the i-th declaration of the call.
RegistryAt(i) ==
    Range(call.before) \cup Range(TypedefNames(SubSeq(call.decls, 1, i - 1)))

RECURSIVE HasTypedefInside(_)
\* Some pointer of the declarator, or some parameter at any depth, carries
\* the Typedef qualifier.
HasTypedefInside(d) ==
    CASE d.k \in {"Anonymous", "Ident"} -> FALSE
      [] d.k = "Ptr" -> "Typedef" \in d.quals \/ HasTypedefInside(d.inner)
      [] d.k = "Array" -> HasTypedefInside(d.inner)
      [] d.k = "Function" ->
            \/ HasTypedefInside(d.func)
            \/ \E i \in DOMAIN d.params :
                  \/ "Typedef" \in d.params[i].base_type.quals
                  \/ HasTypedefInside(d.params[i].declarator)

RECURSIVE NoPtr(_)
\* No pointer on the chain from the declarator down to its atom.
NoPtr(d) ==
    CASE d.k \in {"Anonymous", "Ident"} -> TRUE
      [] d.k = "Ptr" -> FALSE
      [] d.k = "Array" -> NoPtr(d.inner)
      [] d.k = "Function" -> NoPtr(d.func)

RECURSIVE PtrOutermost(_)
\* The pointers of the chain are all outside its arrays and functions.
PtrOutermost(d) == IF d.k = "Ptr" THEN PtrOutermost(d.inner) ELSE NoPtr(d)

RECURSIVE OuterPtrs(_)
\* The number of pointers at the outside of the declarator.
OuterPtrs(d) == IF d.k = "Ptr" THEN 1 + OuterPtrs(d.inner) ELSE 0

RECURSIVE SuffixSizes(_)
\* The sizes of the arrays of the chain, innermost first.
SuffixSizes(d) ==
    CASE d.k \in {"Anonymous", "Ident"} -> <<>>
      [] d.k = "Ptr" -> SuffixSizes(d.inner)
      [] d.k = "Array" -> Append(SuffixSizes(d.inner), d.size)
      [] d.k = "Function" -> SuffixSizes(d.func)

RECURSIVE BracketSizes(_, _, _)
\* The sizes written in the brackets of the lexemes p..e, left to right.
BracketSizes(line, p, e) ==
    IF p > e THEN <<>>
    ELSE (IF line[p] = "["
          THEN <<IF IsNumber(At(line, p + 1))
                 THEN Some(usize_from_str(NumberDigits(line[p + 1]), 0)) ELSE None>>
          ELSE <<>>)
         \o BracketSizes(line, p + 1, e)

\* The line that declares x with the type n.
UseOf(n) == <<n, " ", "x">>

Names == {"foo", "bar"}

\* The words of a type as it is rendered.
TypeWords(ty) ==
    CASE ty.k = "Primitive" ->
            PrimitiveSpellings[CHOOSE i \in DOMAIN PrimitiveSpellings :
                                  stringify(PrimitiveSpellings[i]) = ty.name]
      [] ty.k = "Record" -> <<ty.kind, ty.name>>
      [] ty.k = "Custom" -> <<ty.name>>

\* The words of a rendered base type: const, volatile, restrict, those the
\* type has, then the type.
BaseTypeWords(qt) ==
    SelectSeq(<<"const", "volatile", "restrict">>,
              LAMBDA w : TypeQualifier[w] \in qt.quals)
    \o TypeWords(qt.ty)

\* The first and the last letter of the words the types of the inputs are
\* written with, spelled out.
Chars ==
    ("unsigned" :> <<"u", "d">>) @@ ("signed" :> <<"s", "d">>)
    @@ ("long" :> <<"l", "g">>) @@ ("short" :> <<"s", "t">>)
    @@ ("int" :> <<"i", "t">>) @@ ("char" :> <<"c", "r">>)
    @@ ("float" :> <<"f", "t">>) @@ ("double" :> <<"d", "e">>)
    @@ ("void" :> <<"v", "d">>) @@ ("_Bool" :> <<"_", "l">>)
    @@ ("_Complex" :> <<"_", "x">>)
    @@ ("struct" :> <<"s", "t">>) @@ ("union" :> <<"u", "n">>)
    @@ ("enum" :> <<"e", "m">>)
    @@ ("const" :> <<"c", "t">>) @@ ("volatile" :> <<"v", "e">>)
    @@ ("restrict" :> <<"r", "t">>) @@ ("typedef" :> <<"t", "f">>)
    @@ ("foo" :> <<"f", "o">>) @@ ("bar" :> <<"b", "r">>)
    @@ ("x" :> <<"x", "x">>) @@ ("p" :> <<"p", "p">>)
    @@ ("point" :> <<"p", "t">>) @@ ("bus" :> <<"b", "s">>)
    @@ ("Item" :> <<"I", "m">>)

\* The rendered base type, its first letter and its last.
RenderedType(qt) == stringify(BaseTypeWords(qt))
FirstLetter(qt) == Chars[BaseTypeWords(qt)[1]][1]
LastLetter(qt) == Chars[BaseTypeWords(qt)[Len(BaseTypeWords(qt))]][2]

Vowels == {"a", "e", "i", "o", "u", "A", "E", "I", "O", "U"}

\* The declaration explained is a typedef.
IsTypedef(decl) == "Typedef" \in decl.base_type.quals

\* The explanation of the declarator of the declaration explained, as the
\* explanation of the declaration starts from it.
Sub(decl) == explain_declarator(decl.declarator, IsTypedef(decl))

\* The text of an explanation in which the base type is rendered as typed:
\* after the declarator phrase, before the name of an ordinary declaration.
ExplanationWith(decl, typed) ==
    LET sub == Sub(decl)
        named == IF sub.identifier_name # None
                 THEN " named " \o sub.identifier_name[1] ELSE ""
    IN  IF IsTypedef(decl)
        THEN "a type" \o named \o " defined as " \o PlainText(sub.msg) \o typed
        ELSE PlainText(sub.msg) \o typed \o named

RECURSIVE CommaList(_, _)
\* The texts from the i-th on, a comma and a space after each but the last,
\* which follows the word "and".
CommaList(texts, i) ==
    IF i = Len(texts) THEN "and " \o texts[i]
    ELSE texts[i] \o ", " \o CommaList(texts, i + 1)

\* A parameter list as it reads, given the texts of its parameters.
ParameterText(texts) ==
    CASE Len(texts) = 0 -> "no parameters"
      [] Len(texts) = 1 -> "(" \o texts[1] \o ")"
      [] Len(texts) = 2 -> "(" \o texts[1] \o " and " \o texts[2] \o ")"
      [] OTHER -> "(" \o CommaList(texts, 1) \o ")"

RECURSIVE Anonymized(_)
\* The declarator without its name.
Anonymized(d) ==
    CASE d.k \in {"Anonymous", "Ident"} -> Anonymous
      [] d.k = "Ptr" -> Ptr(Anonymized(d.inner), d.quals)
      [] d.k = "Array" -> Array(Anonymized(d.inner), d.size)
      [] d.k = "Function" -> Function(Anonymized(d.func), d.params)

\* The ordinary declaration of the same type as a typedef, without a name.
Aliased(decl) ==
    Declaration(QualifiedType(decl.base_type.quals \ {"Typedef"}, decl.base_type.ty),
                Anonymized(decl.declarator))

\* The positions of a text at which a segment has the given text.
SegmentsOf(msg, text) == {i \in DOMAIN msg : msg[i].text = text}

\* A typedef reads "a type", " named NAME" with NAME tagged UserDefinedType if
\* and only if the declarator has a name, " defined as ", and then what the
\* ordinary declaration of that type without a name reads.
TypedefReads(decl, msg) ==
    LET n == name(decl.declarator)
    IN  /\ PlainText(msg)
              = "a type" \o (IF n # None THEN " named " \o n[1] ELSE "")
                \o " defined as " \o PlainText(explain_declaration(Aliased(decl)).msg)
        /\ n # None =>
              /\ msg[1] = HighlightedTextSegment("a type named ", "None")
              /\ msg[2] = HighlightedTextSegment(n[1], "UserDefinedType")
        /\ n = None => msg[1].highlight = "None"

\* The position of the first lexeme of a source equal to l.
FirstOf(src, l) == CHOOSE p \in DOMAIN src : src[p] = l /\ \A q \in 1..(p - 1) : src[q] # l

\* The qualifiers whose keywords are among the lexemes from..to of a source.
QualifiersWritten(src, from, to) ==
    {TypeQualifier[src[p]] : p \in {q \in from..to : src[q] \in DOMAIN TypeQualifier}}

\* A qualifier set as it reads: const, volatile, restrict, those it has, a
\* space between them and one after the last.
QualifiersRead(quals) ==
    (IF "Const" \in quals THEN "const " ELSE "")
    \o (IF "Volatile" \in quals THEN "volatile " ELSE "")
    \o (IF "Restrict" \in quals THEN "restrict " ELSE "")

----------------------------------------------------------------------------
(* Properties *)

\* C1: an identifier in type position is accepted as Type::Custom if and only
\* if the name is in the registry at that point of the input: every Custom of
\* a returned declaration was registered before that declaration, a line with
\* an unregistered identifier in type position fails, a registered one is
\* accepted, "typedef int foo; foo x" succeeds and "foo x; typedef int foo"
\* fails when foo was not registered before.
C1_TypedefGating ==
    Parsed =>
        /\ call.ok =>
              \A i \in DOMAIN call.decls : CustomNames(call.decls[i]) \subseteq RegistryAt(i)
        /\ \A q \in TypeIdents(call.line) :
              LET reg == RegistryBefore(call.line, call.before,
                                        StatementOf(call.line, q))
              IN  (reg.ok /\ call.line[q] \notin Range(reg.state)) => ~call.ok
        /\ \A n \in Names :
              (call.line = UseOf(n)) =>
                  (call.ok <=> n \in Range(call.before))
                  /\ (call.ok =>
                        call.decls = <<Declaration(QualifiedType({}, Custom(n)), Ident("x"))>>)
        /\ (call.line = <<"typedef", " ", "int", " ", "foo", ";", " ", "foo", " ", "x">>)
              => call.ok /\ call.decls[2].base_type.ty = Custom("foo")
        /\ (call.line = <<"foo", " ", "x", ";", " ", "typedef", " ", "int", " ", "foo">>
            /\ "foo" \notin Range(call.before))
              => ~call.ok

\* C1 witness: with an empty registry, the use after the typedef of the same
\* line was accepted.
C1_Witness ==
    /\ call.op = "readline" /\ call.before = <<>>
    /\ call.line = <<"typedef", " ", "int", " ", "foo", ";", " ", "foo", " ", "x">>
    /\ call.ok /\ call.decls[2].base_type.ty = Custom("foo")

\* C2: typedef memory follows the state object.  In the session, which keeps
\* one State, a call leaves every name its typedefs declared in the state and
\* no later step removes one; a later line that uses a name of the state is
\* accepted, and explained when no write fails; explain(), which parses with
\* a fresh state, rejects the same use whatever the session has registered.
C2_StateObject ==
    [][/\ (call'.op = "readline" /\ call'.ok) =>
              Range(TypedefNames(call'.decls)) \subseteq Range(parser_state')
       /\ Range(parser_state) \subseteq Range(parser_state')
       /\ \A n \in Names :
              /\ (call'.op = "readline" /\ call'.line = UseOf(n)
                  /\ n \in Range(parser_state))
                    => /\ call'.ok
                       /\ IsPrefix(stdout', <<"a " \o n \o " named x">>)
                       /\ call'.fail = 0 => stdout' = <<"a " \o n \o " named x">>
              /\ (call'.op = "explain" /\ call'.line = UseOf(n))
                    => ~call'.ok /\ ~ret'[1].ok]_vars

\* C2 witness: a line used foo, which an earlier line of the session had
\* declared, and was explained.
C2_Witness ==
    /\ call.op = "readline" /\ call.line = UseOf("foo")
    /\ "foo" \in Range(call.before)
    /\ call.ok /\ stdout = <<"a foo named x">>

\* The declarations a parse of the line with the registry before goes
\* through, whether it succeeds or fails: those of the longest of the first
\* q lexemes of the line that parse.
RECURSIVE ConsumedDeclarations(_, _, _)
ConsumedDeclarations(line, before, q) ==
    IF parse_with_state(SubSeq(line, 1, q), before).ok
    THEN parse_with_state(SubSeq(line, 1, q), before).decls
    ELSE ConsumedDeclarations(line, before, q - 1)

\* C3: the registry starts empty and only grows.  Every step leaves the old
\* registry as a prefix of the new one; a call, whether it succeeds or fails,
\* appends exactly the names declared by the named typedef declarations it
\* consumed, in their order, once for each; a call that succeeds consumed the
\* declarations it returns; no other step changes the registry.
C3_RegistryMonotone ==
    /\ parser_state = DefaultState
    /\ [][/\ IsPrefix(parser_state, parser_state')
          /\ (call'.op = "readline" /\ call.op = "none") =>
                parser_state' = parser_state
                    \o TypedefNames(ConsumedDeclarations(call'.line, parser_state,
                                                         Len(call'.line)))
          /\ (call'.op = "readline" /\ call.op = "none" /\ call'.ok) =>
                parser_state' = parser_state \o TypedefNames(call'.decls)
          /\ ~(call'.op = "readline" /\ call.op = "none") =>
                parser_state' = parser_state]_vars

\* C3 witness: in a session that knew bar, the line "typedef int foo(foo);
\* foo x" failed at the parenthesis and left foo, the name of the typedef it
\* had consumed, after bar in the registry, and nothing else.
C3_Witness ==
    /\ call.op = "readline" /\ ~call.ok
    /\ call.line = <<"typedef", " ", "int", " ", "foo", "(", "foo", ")", ";", " ",
                     "foo", " ", "x">>
    /\ call.before = <<"bar">>
    /\ parser_state = <<"bar", "foo">>

\* C4: the state is a set of names: a call whose typedefs declare only names
\* that are registered already leaves the state equal to the state before.
C4_StateIsSet ==
    (call.op = "readline" /\ call.ok
     /\ Range(TypedefNames(call.decls)) \subseteq Range(call.before))
        => parser_state = call.before

\* C6: a parse call has exactly one of two outcomes, declarations and no
\* error or errors and no declaration, and neither caller explains anything
\* of an input with an error: the session prints one explanation per
\* declaration and nothing on standard error, or nothing on standard output
\* and the header with the errors (up to the write that fails, when one
\* does); explain() returns the text or the errors.
C6_OneOutcome ==
    Parsed =>
        /\ \/ call.ok /\ call.errs = <<>>
           \/ ~call.ok /\ call.errs # <<>> /\ call.decls = <<>>
        /\ call.op = "readline" =>
              IF call.ok
              THEN /\ stderr = <<>> /\ Len(stdout) <= Len(call.decls)
                   /\ call.fail = 0 => Len(stdout) = Len(call.decls)
              ELSE /\ stdout = <<>> /\ Len(stderr) <= 1 + Len(call.errs)
                   /\ call.fail = 0 => Len(stderr) = 1 + Len(call.errs)
        /\ call.op = "explain" =>
              /\ ret # None /\ ret[1].ok = call.ok
              /\ ~call.ok => ret[1].value = call.errs

\* C6 witness: a line whose first statement is a declaration and whose second
\* fails printed the error and no explanation.
C6_Witness ==
    /\ call.op = "readline" /\ ~call.ok
    /\ call.line = <<"int", " ", "x", ";", " ", "int", " ", "x", " ", "=", " ", "5">>
    /\ stdout = <<>> /\ Len(stderr) = 2

\* C7: in a returned list, a declaration has the Typedef qualifier on its base
\* type exactly when its statement starts with the typedef keyword, and no
\* pointer and no parameter at any depth has it.
C7_TypedefOnlyTopLevel ==
    (Parsed /\ call.ok) =>
        \A i \in DOMAIN call.decls :
            /\ "Typedef" \in call.decls[i].base_type.quals
                  <=> IsTypedefStatement(call.line, StatementStart(call.line, i))
            /\ ~HasTypedefInside(call.decls[i].declarator)

\* C7 witness: a line with a typedef and a function with parameters: the
\* first declaration has the qualifier, the second and its parameters do not.
C7_Witness ==
    /\ call.op = "readline" /\ call.ok /\ Len(call.decls) = 2
    /\ "Typedef" \in call.decls[1].base_type.quals
    /\ call.decls[2].declarator.k = "Function"
    /\ Len(call.decls[2].declarator.params) = 2
    /\ "Typedef" \notin call.decls[2].base_type.quals

\* C8: suffixes bind tighter than the pointer prefix unless parentheses group:
\* "int *p[10]" is an array of pointers and "int (*p)[10]" a pointer to an
\* array, and so they are explained when the write succeeds; in a statement without parentheses every pointer is outside the
\* arrays, there is one per star, and the arrays are nested in the order
\* written, the first innermost.
C8_SuffixBeforePrefix ==
    /\ (call.op = "readline" /\ call.line = <<"int", " ", "*", "p", "[", "10", "]">>)
          => /\ call.decls = <<Declaration(IntType, Ptr(Array(Ident("p"), Some(10)), {}))>>
             /\ call.fail = 0 => stdout = <<"an array named p of 10 pointers to ints">>
    /\ (call.op = "readline"
        /\ call.line = <<"int", " ", "(", "*", "p", ")", "[", "10", "]">>)
          => /\ call.decls = <<Declaration(IntType, Array(Ptr(Ident("p"), {}), Some(10)))>>
             /\ call.fail = 0 => stdout = <<"a pointer named p to an array of 10 ints">>
    /\ (Parsed /\ call.ok) =>
          \A i \in DOMAIN call.decls :
              LET p == StatementStart(call.line, i)
                  e == StatementEnd(call.line, p)
                  d == call.decls[i].declarator
              IN  (\A q \in p..e : call.line[q] # "(") =>
                      /\ PtrOutermost(d)
                      /\ OuterPtrs(d) = Cardinality({q \in p..e : call.line[q] = "*"})
                      /\ SuffixSizes(d) = BracketSizes(call.line, p, e)

\* C8 witness: "char *foo[3][2]" was parsed as a pointer-of-nothing around two
\* arrays and explained as an array of arrays of pointers.
C8_Witness ==
    /\ call.op = "readline"
    /\ call.line = <<"char", " ", "*", "foo", "[", "3", "]", "[", "2", "]">>
    /\ call.decls = <<Declaration(QualifiedType({}, Primitive("char")),
                        Ptr(Array(Array(Ident("foo"), Some(3)), Some(2)), {}))>>
    /\ stdout = <<"an array named foo of 3 arrays of 2 pointers to chars">>

\* C9 as stated: the result of an Array node is Plural and the result of a
\* Function node and of a Ptr node is Singular, whatever the inner one is.
C9_PtrAlwaysSingular ==
    walk.stage = "declarator" =>
        /\ walk.decl.declarator.k = "Array" => walk.result.plurality = "Plural"
        /\ walk.decl.declarator.k \in {"Function", "Ptr"}
              => walk.result.plurality = "Singular"

\* C9 amended: the result of an Array node is Plural and that of a Function
\* node is Singular, whatever the inner one is; the result of a Ptr node has
\* the plurality of its inner declarator.
C9_Plurality ==
    walk.stage = "declarator" =>
        LET d == walk.decl.declarator
        IN  /\ d.k = "Array" => walk.result.plurality = "Plural"
            /\ d.k = "Function" => walk.result.plurality = "Singular"
            /\ d.k = "Ptr" =>
                  walk.result.plurality
                      = explain_declarator(d.inner, walk.skip_name).plurality

\* C9 witness: a pointer around an array came out Plural.
C9_Witness ==
    /\ walk.stage = "declarator"
    /\ walk.decl.declarator.k = "Ptr"
    /\ walk.decl.declarator.inner.k = "Array"
    /\ walk.result.plurality = "Plural"

\* C10: explaining never panics: neither the case marked unreachable in the
\* Function branch, nor an empty type segment list, nor the typedef assertion.
C10_NeverPanics ==
    walk.stage \in {"declarator", "declaration"} => ~walk.result.panicked

\* C10 witness: a function around a named array, the plural case with a name,
\* was explained with the name kept: the array had taken the name.
C10_Witness ==
    /\ walk.stage = "declarator" /\ ~walk.skip_name
    /\ walk.decl.declarator.k = "Function"
    /\ walk.decl.declarator.func = Array(Ident("x"), None)
    /\ ~walk.result.panicked
    /\ walk.result.identifier_name = None
    /\ walk.result.plurality = "Singular"

\* C11: when the declarator walk ends Singular, the base type follows an
\* article chosen from the first letter of the rendered base type, qualifiers
\* included: "an " before a vowel, "a " before any other letter.
C11_ArticleByFirstLetter ==
    (walk.stage = "declaration" /\ Sub(walk.decl).plurality = "Singular") =>
        PlainText(walk.result.msg)
            = ExplanationWith(walk.decl,
                (IF FirstLetter(walk.decl.base_type) \in Vowels THEN "an " ELSE "a ")
                \o RenderedType(walk.decl.base_type))

\* C12: when the declarator walk ends Plural, of an ordinary declaration or of
\* a typedef, the base type has no article in front of it and a plural suffix
\* after it: "es" when the rendered type ends in s, x or z, "s" otherwise;
\* an array named x of struct point ends in "struct points".
C12_PluralSuffix ==
    (walk.stage = "declaration" /\ Sub(walk.decl).plurality = "Plural") =>
        /\ PlainText(walk.result.msg)
              = ExplanationWith(walk.decl,
                  RenderedType(walk.decl.base_type)
                  \o (IF LastLetter(walk.decl.base_type) \in {"s", "x", "z"}
                      THEN "es" ELSE "s"))
        /\ walk.decl = Declaration(QualifiedType({}, Record("struct", "point")),
                                   Array(Ident("x"), None))
              => PlainText(walk.result.msg) = "an array named x of struct points"

\* C12 witness: a typedef of an array of a type whose name ends in s was
\* explained with the suffix "es".
C12_Witness ==
    /\ walk.stage = "declaration"
    /\ walk.decl = Declaration(QualifiedType({"Typedef", "Const"}, Custom("bus")),
                               Array(Ident("x"), None))
    /\ PlainText(walk.result.msg)
          = "a type named x defined as an array of const buses"

\* C13: the parameter list of a function reads "no parameters" when empty,
\* "(E1)" for one parameter, "(E1 and E2)" for two and "(E1, E2, ..., and En)"
\* for three or more, each Ei the explanation of the i-th parameter, between
\* the words before the list and the words after it.
C13_ParameterList ==
    (walk.stage = "declarator" /\ walk.decl.declarator.k = "Function") =>
        LET d == walk.decl.declarator
            sub == explain_declarator(d.func, walk.skip_name)
            texts == [i \in DOMAIN d.params |->
                        PlainText(explain_declaration(d.params[i]).msg)]
        IN  PlainText(walk.result.msg)
                = PlainText(explain_function_head(sub, walk.skip_name).msg)
                  \o ParameterText(texts)
                  \o (IF sub.plurality = "Singular"
                      THEN " and returns " ELSE " and return ")

\* C13 witness: a function of three parameters was explained with a comma
\* after the first and after the second and "and" before the third.
C13_Witness ==
    /\ walk.stage = "declarator" /\ ~walk.skip_name
    /\ walk.decl.declarator.k = "Function"
    /\ walk.decl.declarator.func = Ident("x")
    /\ Len(walk.decl.declarator.params) = 3
    /\ PlainText(walk.result.msg)
          = "a function named x that takes (an int named p, a pointer to a "
            \o "const char, and an array named x of foos) and returns "

\* C14 as stated: a typedef reads "a type", " named NAME" tagged
\* UserDefinedType if and only if the declarator has a name, " defined as ",
\* the declarator phrase and the base type without Typedef, and the declared
\* name is in the text exactly once and never tagged Ident.
C14_NameOnce ==
    (walk.stage = "declaration" /\ IsTypedef(walk.decl)) =>
        /\ TypedefReads(walk.decl, walk.result.msg)
        /\ name(walk.decl.declarator) # None =>
              /\ Cardinality(SegmentsOf(walk.result.msg,
                                        name(walk.decl.declarator)[1])) = 1
              /\ \A i \in SegmentsOf(walk.result.msg, name(walk.decl.declarator)[1]) :
                    walk.result.msg[i].highlight # "Ident"

\* C14 amended: a typedef reads as above, and the declared name is written
\* once, right after "a type named ", and not again by the walk of its own
\* declarator: every other segment with that text, and every segment tagged
\* Ident, is one of the ordinary declaration of that type without a name (a
\* parameter of a function, or the base type).
C14_TypedefPhrase ==
    (walk.stage = "declaration" /\ IsTypedef(walk.decl)) =>
        LET n == name(walk.decl.declarator)
            msg == walk.result.msg
            rest == explain_declaration(Aliased(walk.decl)).msg
        IN  /\ TypedefReads(walk.decl, msg)
            /\ SelectSeq(msg, LAMBDA seg : seg.highlight = "Ident")
                  = SelectSeq(rest, LAMBDA seg : seg.highlight = "Ident")
            /\ n # None =>
                  Cardinality(SegmentsOf(msg, n[1]))
                      = 1 + Cardinality(SegmentsOf(rest, n[1]))

\* C14 witness: the typedef of a function type with a named parameter was
\* explained with its own name after "a type" and the parameter's in the list.
C14_Witness ==
    /\ walk.stage = "declaration"
    /\ walk.decl = Declaration(QualifiedType({"Typedef"}, Primitive("int")),
                               Function(Ident("x"), <<Declaration(IntType, Ident("p"))>>))
    /\ PlainText(walk.result.msg)
          = "a type named x defined as a function that takes (an int named p) "
            \o "and returns an int"

\* C15: a run of qualifier keywords parses to the set of the qualifiers
\* written in it, whatever their order and however often each is repeated,
\* before a type and after a star alike, and a set reads with its members in
\* the order const, volatile, restrict with single spaces: "int *restrict
\* const x" and "int *const restrict x" both read "const restrict".
C15_QualifierSet ==
    (walk.stage \in {"parsed", "explained"} /\ walk.src \in QualifierSources) =>
        LET star == FirstOf(walk.src, "*")
            base == QualifiersWritten(walk.src, 1, star)
            ptr == QualifiersWritten(walk.src, star, Len(walk.src))
        IN  /\ walk.r.ok
            /\ walk.r.decls = <<Declaration(QualifiedType(base, Primitive("int")),
                                            Ptr(Ident("x"), ptr))>>
            /\ walk.stage = "explained" =>
                  /\ walk.texts
                        = <<"a " \o QualifiersRead(ptr) \o "pointer named x to "
                            \o (IF base = {} THEN "an " ELSE "a ")
                            \o QualifiersRead(base) \o "int">>
                  /\ walk.src \in {<<"int", " ", "*", "restrict", " ", "const", " ", "x">>,
                                   <<"int", " ", "*", "const", " ", "restrict", " ", "x">>}
                        => walk.texts = <<"a const restrict pointer named x to an int">>

\* C15 witness: "volatile const volatile int *restrict const x" was parsed
\* into two sets of two and explained in the fixed order.
C15_Witness ==
    /\ walk.stage = "explained"
    /\ walk.src = <<"volatile", " ", "const", " ", "volatile", " ", "int", " ", "*",
                    "restrict", " ", "const", " ", "x">>
    /\ walk.r.decls[1].base_type.quals = {"Const", "Volatile"}
    /\ walk.texts = <<"a const restrict pointer named x to a const volatile int">>

\* C16: a function suffix whose parentheses hold the keyword void alone
\* parses to the Function with no parameters, as the empty parentheses do,
\* and void with anything else in the parentheses is the type of an ordinary
\* parameter: "(void *)" is one parameter, a pointer to void.
C16_VoidParameterList ==
    \A head \in FunctionHeads : \A parens \in FunctionParentheses :
        (walk.stage = "parsed" /\ walk.src = FunctionSource(head, parens)) =>
            /\ walk.r.ok
            /\ walk.r.decls = <<Declaration(QualifiedType({}, Primitive("int")),
                                            Function(head.decl, parens.params))>>
            /\ parens.text = <<"void">> =>
                 /\ parens.params = <<>>
                 /\ walk.r.decls
                      = parse(FunctionSource(head, [text |-> <<>>, params |-> <<>>])).decls
            /\ (Len(parens.text) > 1 /\ parens.text[1] = "void") =>
                 /\ parens.params # <<>>
                 /\ walk.r.decls[1].declarator.params[1].base_type
                      = QualifiedType({}, Primitive("void"))

\* C16 witness: "int f(void)" was parsed to the function f of no parameters.
C16_Witness ==
    /\ walk.stage = "parsed"
    /\ walk.src = <<"int", " ", "f", "(", "void", ")">>
    /\ walk.r.decls = <<Declaration(QualifiedType({}, Primitive("int")),
                                    Function(Ident("f"), <<>>))>>

\* C17: declarations separated by runs of one or more semicolons, with any
\* number of semicolons before the first and after the last, parse to the
\* list of exactly the declarations in the order written.
C17_SemicolonRuns ==
    \A lead \in SemicolonRuns, trail \in SemicolonRuns, count \in 0..3 :
        \A sep1 \in SeparatorRuns, sep2 \in SeparatorRuns :
            (walk.stage = "parsed"
             /\ walk.src = SemicolonSource(lead, count, sep1, sep2, trail)) =>
                /\ walk.r.ok
                /\ walk.r.decls = SubSeq(StatementDeclarations, 1, count)

\* C18: the parse of the empty input succeeds with no declaration and no
\* error, and explain() of the empty input returns the empty string.
C18_EmptyInput ==
    /\ parse(<<>>) = [ok |-> TRUE, decls |-> <<>>, errs |-> <<>>, state |-> DefaultState]
    /\ (call.op = "explain" /\ call.line = <<>>) =>
          /\ call.ok /\ call.decls = <<>> /\ call.errs = <<>>
          /\ ret = Some([panicked |-> FALSE, ok |-> TRUE, value |-> ""])

\* C18 witness: explain() was called with the empty input and has its value.
C18_Witness ==
    /\ call.op = "explain" /\ call.line = <<>>
    /\ call.ok
    /\ ret # None /\ ret[1].value = ""

\* C20: every spelling of the list of primitive types, followed by the
\* identifier foo, parses to the primitive type named by the whole spelling;
\* in the list no spelling comes after one that it is a proper word-prefix
\* of; and the explanation reads "<article> <spelling> named foo".
C20_LongestSpelling ==
    /\ \A i, j \in DOMAIN PrimitiveSpellings :
          (IsPrefix(PrimitiveSpellings[i], PrimitiveSpellings[j])
           /\ PrimitiveSpellings[i] # PrimitiveSpellings[j]) => j < i
    /\ \A i \in DOMAIN PrimitiveSpellings :
          (walk.stage \in {"parsed", "explained"}
           /\ walk.src = SpellingSource(PrimitiveSpellings[i])) =>
              /\ walk.r.ok
              /\ walk.r.decls
                   = <<Declaration(QualifiedType({}, Primitive(stringify(PrimitiveSpellings[i]))),
                                   Ident("foo"))>>
              /\ walk.stage = "explained" =>
                   walk.texts
                     = <<(IF PrimitiveSpellings[i][1] \in {"unsigned", "int"}
                          THEN "an " ELSE "a ")
                         \o stringify(PrimitiveSpellings[i]) \o " named foo">>

\* C20 witness: "unsigned long long int foo" was parsed to the type of the
\* four words and explained.
C20_Witness ==
    /\ walk.stage = "explained"
    /\ walk.src = <<"unsigned", " ", "long", " ", "long", " ", "int", " ", "foo">>
    /\ walk.r.decls[1].base_type.ty = Primitive("unsigned long long int")
    /\ walk.texts = <<"an unsigned long long int named foo">>

\* C19: an array size literal that is at most usize::MAX is stored as it is
\* written in Array(_, Some(n)); one that exceeds usize::MAX makes the parse
\* return exactly one error, whose span is that of the digits of the literal
\* and whose text is "at <start>..<end>: number too large to fit in target
\* type" ("at 8..29: ..." for "int arr[184467440737095516150]").
C19_ArraySize ==
    \A frame \in ArrayFrames : \A literal \in Literals :
        (walk.stage = "parsed" /\ walk.src = ArraySource(frame, literal)) =>
            IF literal \in DOMAIN LiteralValue
            THEN /\ walk.r.ok /\ walk.r.errs = <<>>
                 /\ walk.r.decls = ArrayDeclarations(frame, Some(LiteralValue[literal]))
            ELSE /\ ~walk.r.ok /\ walk.r.decls = <<>>
                 /\ walk.r.errs
                      = <<[at |-> Offset(walk.src, Len(frame.pre) + 1),
                           end |-> Offset(walk.src, Len(frame.pre) + 1) + Len(literal),
                           reason |-> "number too large to fit in target type"]>>
                 /\ rich_wrapper_fmt(walk.r.errs[1])
                      = "at " \o usize_to_string(Offset(walk.src, Len(frame.pre) + 1))
                        \o ".."
                        \o usize_to_string(Offset(walk.src, Len(frame.pre) + 2))
                        \o ": number too large to fit in target type"
                 /\ walk.src = <<"int", " ", "arr", "[", "184467440737095516150", "]">>
                      => rich_wrapper_fmt(walk.r.errs[1])
                           = "at 8..29: number too large to fit in target type"

\* C19 witness: "int arr[184467440737095516150]" was parsed, with the one
\* error on the 21 digits.
C19_Witness ==
    /\ walk.stage = "parsed"
    /\ walk.src = <<"int", " ", "arr", "[", "184467440737095516150", "]">>
    /\ Len(walk.r.errs) = 1
    /\ walk.r.errs[1].at = 8 /\ walk.r.errs[1].end = 29

\* C22: a syntax error reads "at <start>..<end>: expected <alternatives>,
\* but found '<token>'", or "but found end of input" when no token was found,
\* the alternatives written by their number: none as "[unknown]", one as "A",
\* two as "A or B", three or more as "A, B, ..., or Z"; a custom error reads
\* "at <start>..<end>: <message>" with no expected part.
C22_ErrorRendering ==
    walk.stage = "rendered" =>
        LET err == walk.err
            span == "at " \o usize_to_string(err.at) \o ".."
                    \o usize_to_string(err.end) \o ": "
            n == IF "expected" \in DOMAIN err THEN Len(err.expected) ELSE 0
            W(i) == wrap(err.expected[i])
            alternatives ==
                CASE n = 0 -> "[unknown]"
                  [] n = 1 -> W(1)
                  [] n = 2 -> W(1) \o " or " \o W(2)
                  [] n = 3 -> W(1) \o ", " \o W(2) \o ", or " \o W(3)
                  [] n = 4 -> W(1) \o ", " \o W(2) \o ", " \o W(3) \o ", or " \o W(4)
                  [] OTHER -> fmt_rest(SubSeq(err.expected, 1, n - 1)) \o "or " \o W(n)
        IN  IF "expected" \in DOMAIN err
            THEN walk.text
                   = span \o "expected " \o alternatives \o ", but found "
                     \o (IF err.found = None THEN "end of input"
                         ELSE "'" \o err.found[1] \o "'")
            ELSE walk.text = span \o err.reason

\* C22 witness: the error at 6..7 with three alternatives and the token '='
\* was written.
C22_Witness ==
    /\ walk.stage = "rendered"
    /\ walk.err = expected_found(6, 7, <<Token("["), AnyToken, EndOfInput>>, Some("="))
    /\ walk.text = "at 6..7: expected '[', anything, or end of input, but found '='"

\* C23 as stated: the read loop is left only from the prompt, by the end of
\* input or an interrupt with the exit code of success, or by a read error
\* with the exit code of failure; an empty line, "@license", a line that
\* parses and a line that fails to parse all go on to the next prompt with
\* no exit code.
C23_LoopExits ==
    [][/\ (pc # "exited" /\ pc' = "exited") =>
             /\ pc = "readline" /\ call = NoCall /\ call' = NoCall
             /\ \/ exit_code' = Some("SUCCESS") /\ stderr' = <<>>
                \/ /\ exit_code' = Some("FAILURE")
                   /\ stderr' = <<[kind |-> "read", text |-> "Error reading line: "]>>
       /\ (pc = "readline" /\ call' # NoCall
           /\ call'.op \in {"empty", "license", "readline"}) =>
             pc' = "continue" /\ exit_code' = None
       /\ pc = "continue" => pc' = "readline" /\ exit_code' = None
       /\ pc = "exited" => pc' = "exited" /\ exit_code' = exit_code]_vars

\* C23: the read loop is left only from the prompt: by the end of input or
\* an interrupt with the exit code of success, by a read error with the exit
\* code of failure and its message, or by the panic of a write that fails,
\* with what was written before it; while no write fails, an empty line,
\* "@license", a line that parses and a line that fails to parse all go on to
\* the next prompt with no exit code, and a write that fails in one of them
\* ends the process.
C23_LoopExitsOrPanic ==
    [][/\ (pc # "exited" /\ pc' = "exited") =>
             /\ pc = "readline" /\ call = NoCall
             /\ \/ /\ call' = NoCall
                   /\ \/ exit_code' = Some("SUCCESS") /\ stderr' = <<>>
                      \/ /\ exit_code' = Some("FAILURE")
                         /\ stderr'
                              = <<[kind |-> "read", text |-> "Error reading line: "]>>
                      \/ exit_code' = Some("PANIC") /\ stdout' = <<>> /\ stderr' = <<>>
                \/ /\ call' # NoCall /\ call'.op \in {"license", "readline"}
                   /\ call'.fail > 0 /\ exit_code' = Some("PANIC")
                   /\ Len(stdout') + Len(stderr') < call'.fail
       /\ (pc = "readline" /\ call' # NoCall
           /\ call'.op \in {"empty", "license", "readline"}) =>
             IF call'.fail = 0
             THEN pc' = "continue" /\ exit_code' = None
             ELSE pc' = "exited" /\ exit_code' = Some("PANIC")
       /\ pc = "continue" => pc' = "readline" /\ exit_code' = None
       /\ pc = "exited" => pc' = "exited" /\ exit_code' = exit_code]_vars

\* C23 witness: a line failed to parse, its error was reported and the loop
\* goes on.
C23_Witness ==
    /\ pc = "continue" /\ exit_code = None
    /\ call.op = "readline" /\ ~call.ok /\ call.fail = 0
    /\ Len(stderr) = 2

\* C24: the explanations are written in the order of the declarations, one
\* for each: alone and with no semicolon when there is exactly one, each
\* followed by a semicolon, the last too, when there are two or more; the
\* session writes one per line, explain() joins them with a blank line.
C24_OnePerDeclaration ==
    walk.stage = "emitted" =>
        LET n == Len(walk.r.decls)
            H(i) == explain_to_html(explain_declaration(walk.r.decls[i]))
        IN  /\ Len(walk.lines) = n
            /\ \A i \in 1..n :
                  walk.lines[i] = walk.texts[i] \o (IF n = 1 THEN "" ELSE ";")
            /\ walk.html
                  = CASE n = 0 -> ""
                      [] n = 1 -> H(1)
                      [] n = 2 -> H(1) \o ";" \o "\n\n" \o H(2) \o ";"
                      [] n = 3 -> H(1) \o ";" \o "\n\n" \o H(2) \o ";" \o "\n\n"
                                  \o H(3) \o ";"

\* C24 witness: three declarations were written as three lines, each with its
\* semicolon.
C24_Witness ==
    /\ walk.stage = "emitted"
    /\ walk.lines = <<"an int named a;", "a const char named b;",
                      "a struct foo named c;">>

RECURSIVE SpineNodes(_)
\* The declarator and the declarators it wraps, down to the leaf.
SpineNodes(d) ==
    {d} \cup CASE d.k \in {"Ptr", "Array"} -> SpineNodes(d.inner)
               [] d.k = "Function" -> SpineNodes(d.func)
               [] OTHER -> {}

RECURSIVE ReachesArray(_)
\* The declarator is an array, or pointers around an array.
ReachesArray(d) == d.k = "Array" \/ (d.k = "Ptr" /\ ReachesArray(d.inner))

RECURSIVE PointerWords(_)
\* The words of the pointers of a run around an array: the last written first.
PointerWords(run) ==
    IF run = <<>> THEN ""
    ELSE run[Len(run)].words \o "pointers to "
         \o PointerWords(SubSeq(run, 1, Len(run) - 1))

\* What the Ptr node n adds to the words of its inner declarator when that one
\* is plural.
PluralPtrAdds(n, skip_name) ==
    LET sub == explain_declarator(n.inner, skip_name)
        res == explain_declarator(n, skip_name)
    IN  /\ PlainText(res.msg)
              = PlainText(sub.msg)
                \o (IF n.quals = {} THEN "" ELSE qualifiers_to_string(n.quals) \o " ")
                \o "pointers "
                \o (IF sub.identifier_name # None /\ ~skip_name
                    THEN "named " \o sub.identifier_name[1] \o " " ELSE "")
                \o "to "
        /\ res.plurality = "Plural"

\* C25: a Ptr around a plural inner declarator adds its qualifiers and the
\* word "pointers", with no article, and stays Plural, so that the base type
\* after pointers around an array is in the plural: "int *arr[10]" is "an array
\* named arr of 10 pointers to ints" and "char *const p[]" is "an array named
\* p of const pointers to chars".
C25_PluralPointers ==
    walk.stage = "explained" =>
        /\ \A i \in DOMAIN walk.r.decls :
              \A n \in SpineNodes(walk.r.decls[i].declarator) :
                  (n.k = "Ptr" /\ ReachesArray(n.inner)) =>
                      \A skip_name \in BOOLEAN : PluralPtrAdds(n, skip_name)
        /\ \A base \in PointerBases, id \in PointerNames, suffix \in PointerSuffixes,
              run \in UNION {StarRuns(len) : len \in 1..MaxStars} :
              (suffix.array /\ walk.src = PointerSource(base, run, id, suffix)) =>
                  walk.texts = <<"an array named " \o id \o " of " \o suffix.words
                                 \o PointerWords(run) \o base.many>>
        /\ walk.src = <<"int", " ", "*", "arr", "[", "10", "]">>
              => walk.texts = <<"an array named arr of 10 pointers to ints">>
        /\ walk.src = <<"char", " ", "*", "const", " ", "p", "[", "]">>
              => walk.texts = <<"an array named p of const pointers to chars">>

\* C25 witness: "char *const p[]" was explained as an array of const pointers
\* to chars.
C25_Witness ==
    /\ walk.stage = "explained"
    /\ walk.src = <<"char", " ", "*", "const", " ", "p", "[", "]">>
    /\ walk.r.decls = <<Declaration(QualifiedType({}, Primitive("char")),
                                    Ptr(Array(Ident("p"), None), {"Const"}))>>
    /\ walk.texts = <<"an array named p of const pointers to chars">>

RECURSIVE WrapFromRight(_, _)
\* The declarator d inside the pointers of the run, the last written wrapped
\* first.
WrapFromRight(run, d) ==
    IF run = <<>> THEN d
    ELSE WrapFromRight(SubSeq(run, 1, Len(run) - 1), Ptr(d, run[Len(run)].quals))

RECURSIVE OuterPointerWords(_)
\* The words of the pointers of a run that do not carry the name, the last
\* written first.
OuterPointerWords(run) ==
    IF run = <<>> THEN ""
    ELSE "a " \o run[Len(run)].words \o "pointer to "
         \o OuterPointerWords(SubSeq(run, 1, Len(run) - 1))

\* C26: the qualifiers after the k-th '*' are those of the k-th pointer level
\* counted from the outside, the last '*' is the Ptr nearest the name, and the
\* qualifiers before the type are those of the base type: "const char *const
\* str" is "a const pointer named str to a const char" and "const int
\* *volatile x" is a volatile Ptr around x with the base type const int.
C26_PointerLevels ==
    walk.stage = "explained" =>
        /\ \A base \in PointerBases, id \in PointerNames, suffix \in PointerSuffixes,
              run \in UNION {StarRuns(len) : len \in 1..MaxStars} :
              walk.src = PointerSource(base, run, id, suffix) =>
                  /\ walk.r.decls
                        = <<Declaration(base.ty,
                              WrapFromRight(run, IF suffix.array
                                                 THEN Array(Ident(id), suffix.size)
                                                 ELSE Ident(id)))>>
                  /\ ~suffix.array =>
                        walk.texts
                            = <<"a " \o run[Len(run)].words \o "pointer named " \o id
                                \o " to "
                                \o OuterPointerWords(SubSeq(run, 1, Len(run) - 1))
                                \o base.one>>
        /\ walk.src = <<"const", " ", "char", " ", "*", "const", " ", "str">>
              => walk.texts = <<"a const pointer named str to a const char">>
        /\ walk.src = <<"const", " ", "int", " ", "*", "volatile", " ", "x">>
              => walk.r.decls
                    = <<Declaration(QualifiedType({"Const"}, Primitive("int")),
                                    Ptr(Ident("x"), {"Volatile"}))>>

\* C26 witness: "int *const *volatile p" was parsed with the volatile pointer
\* nearest the name and the const pointer around it.
C26_Witness ==
    /\ walk.stage = "explained"
    /\ walk.src = <<"int", " ", "*", "const", " ", "*", "volatile", " ", "p">>
    /\ walk.r.decls = <<Declaration(QualifiedType({}, Primitive("int")),
                                    Ptr(Ptr(Ident("p"), {"Volatile"}), {"Const"}))>>
    /\ walk.texts = <<"a volatile pointer named p to a const pointer to an int">>

\* The declaration without the Typedef qualifier.
WithoutTypedef(decl) ==
    Declaration(QualifiedType(decl.base_type.quals \ {"Typedef"}, decl.base_type.ty),
                decl.declarator)

\* C27: a typedef whose declarator has no name parses, with the Typedef
\* qualifier on its base type, leaves the registry as the declarations before
\* it made it, and reads "a type defined as" and then the words of the same
\* declaration without the typedef, with nothing "named" in between.
C27_AnonymousTypedef ==
    walk.stage \in {"parsed", "explained"} =>
        /\ \A prefix \in AnonymousPrefixes, form \in AnonymousForms, end \in AnonymousEnds :
              walk.src = AnonymousTypedefSource(prefix, form, end) =>
                  /\ walk.r.ok
                  /\ walk.r.decls
                        = prefix.decls
                          \o <<Declaration(
                                  QualifiedType(form.decl.base_type.quals \cup {"Typedef"},
                                                form.decl.base_type.ty),
                                  form.decl.declarator)>>
                  /\ walk.r.state = prefix.names
                  /\ walk.stage = "explained" =>
                        walk.texts[Len(walk.texts)] = "a type defined as " \o form.words
        /\ (walk.stage = "explained") =>
              \A i \in DOMAIN walk.r.decls :
                  LET decl == walk.r.decls[i]
                  IN  (IsTypedef(decl) /\ name(decl.declarator) = None) =>
                          walk.texts[i]
                              = "a type defined as "
                                \o PlainText(explain_declaration(WithoutTypedef(decl)).msg)

\* C27 witness: after "typedef int foo", "typedef char *" was parsed, left foo
\* alone in the registry and was explained with no name.
C27_Witness ==
    /\ walk.stage = "explained"
    /\ walk.src = <<"typedef", " ", "int", " ", "foo", ";", " ",
                    "typedef", " ", "char", " ", "*">>
    /\ walk.r.ok /\ walk.r.state = <<"foo">>
    /\ IsTypedef(walk.r.decls[2]) /\ walk.r.decls[2].declarator = Ptr(Anonymous, {})
    /\ walk.texts[2] = "a type defined as a pointer to a char"

RECURSIVE Leaf(_)
\* The leaf of a declarator: its name or Anonymous.
Leaf(d) ==
    CASE d.k \in {"Ptr", "Array"} -> Leaf(d.inner)
      [] d.k = "Function" -> Leaf(d.func)
      [] OTHER -> d

RECURSIVE InnermostWrapper(_)
\* The pointer, array or function right around the leaf.
InnermostWrapper(d) ==
    LET below == IF d.k = "Function" THEN d.func ELSE d.inner
    IN  IF below.k \in {"Anonymous", "Ident"} THEN d ELSE InnermostWrapper(below)

\* The word of a pointer, an array or a function around a leaf.
WrapperWord == [Ptr |-> "pointer", Array |-> "array", Function |-> "function"]

RECURSIVE NamedIn(_)
RECURSIVE NamedInAll(_)
\* The number of names of a declarator: its own and those of the parameters
\* of its functions, which are ordinary declarations.
NamedIn(d) ==
    CASE d.k = "Anonymous" -> 0
      [] d.k = "Ident" -> 1
      [] d.k \in {"Ptr", "Array"} -> NamedIn(d.inner)
      [] d.k = "Function" -> NamedIn(d.func) + NamedInAll(d.params)

NamedInAll(params) ==
    IF params = <<>> THEN 0
    ELSE NamedIn(Head(params).declarator) + NamedInAll(Tail(params))

\* The positions of the segments tagged Ident.
IdentSegments(msg) == {i \in DOMAIN msg : msg[i].highlight = "Ident"}

\* The name of the declaration is written right after the word of the
\* innermost wrapper, the first such word of the text, or, with no wrapper,
\* right after the base type, at the end.
NamePlaced(decl, msg) ==
    LET d == decl.declarator
        own == HighlightedTextSegment(Leaf(d).name, "Ident")
        named == HighlightedTextSegment(" named ", "None")
        words == {i \in DOMAIN msg : msg[i].highlight = "QuasiKeyword"}
    IN  IF d.k = "Ident"
        THEN /\ SubSeq(msg, 1, Len(msg) - 2)
                   = explain_declaration(Declaration(decl.base_type, Anonymous)).msg
             /\ SubSeq(msg, Len(msg) - 1, Len(msg)) = <<named, own>>
        ELSE \E q \in words :
                /\ \A i \in words : q <= i
                /\ msg[q].text = WrapperWord[InnermostWrapper(d).k]
                /\ q + 2 <= Len(msg)
                /\ SubSeq(msg, q + 1, q + 2) = <<named, own>>

\* The segments tagged Ident follow " named ", one by one, and there are as
\* many of each as there are names.
NamesFollowNamed(decl, msg) ==
    /\ \A i \in IdentSegments(msg) :
          i > 1 /\ msg[i - 1] = HighlightedTextSegment(" named ", "None")
    /\ Cardinality(IdentSegments(msg)) = NamedIn(decl.declarator)
    /\ Cardinality(SegmentsOf(msg, " named ")) = NamedIn(decl.declarator)

\* C28 as stated: the name of an ordinary declaration is in its explanation
\* exactly once as a segment tagged Ident, after "named ", right after the
\* word of the innermost wrapper or, with no wrapper, after the base type;
\* with no name nothing is "named" outside the parameters.
C28_NameExactlyOnce ==
    (walk.stage = "declaration" /\ ~IsTypedef(walk.decl)) =>
        LET msg == walk.result.msg
            leaf == Leaf(walk.decl.declarator)
        IN  /\ NamesFollowNamed(walk.decl, msg)
            /\ leaf.k = "Ident" =>
                  /\ NamePlaced(walk.decl, msg)
                  /\ Cardinality({i \in IdentSegments(msg) : msg[i].text = leaf.name}) = 1

\* C28 amended: the walk of the declarator writes the name once, placed as
\* stated; every other segment tagged Ident is the name of a parameter, which
\* may be spelled like the name of the declaration; with no name every
\* "named" is that of a parameter.
C28_NamePlacement ==
    (walk.stage = "declaration" /\ ~IsTypedef(walk.decl)) =>
        LET msg == walk.result.msg
            leaf == Leaf(walk.decl.declarator)
            rest == explain_declaration(Aliased(walk.decl)).msg
        IN  /\ NamesFollowNamed(walk.decl, msg)
            /\ leaf.k = "Ident" =>
                  /\ NamePlaced(walk.decl, msg)
                  /\ Cardinality(IdentSegments(msg)) = 1 + Cardinality(IdentSegments(rest))
                  /\ Cardinality({i \in IdentSegments(msg) : msg[i].text = leaf.name})
                        = 1 + Cardinality({i \in IdentSegments(rest) :
                                              rest[i].text = leaf.name})

\* C28 witness: a pointer to an array named x was explained with the name
\* after the word array, the first written.
C28_Witness ==
    /\ walk.stage = "declaration"
    /\ walk.decl = Declaration(IntType, Ptr(Array(Ident("x"), Some(3)), {"Const"}))
    /\ PlainText(walk.result.msg) = "an array named x of 3 const pointers to ints"
    /\ walk.result.msg[2] = HighlightedTextSegment("array", "QuasiKeyword")
    /\ walk.result.msg[4] = HighlightedTextSegment("x", "Ident")

\* The names of the typedefs of the statements of the line before position p,
\* when these statements parse with the registry given.
ConsumedTypedefs(line, before, p) ==
    LET pre == parse_with_state(SubSeq(line, 1, p - 1), before)
    IN  IF pre.ok THEN Range(TypedefNames(pre.decls)) ELSE {}

\* C29: a call that fails does not take back the typedefs it went through:
\* every name declared by the statements that parsed before the one that
\* failed is in the registry after the call, and a line that uses it as a
\* type parses with that registry; after the failing line "typedef int foo;
\* int x = 5" the line "foo y" parses.
C29_NoRollback ==
    [][(call.op = "none" /\ call'.op = "readline" /\ ~call'.ok) =>
          /\ \A p \in StatementStarts(call'.line) :
                \A n \in ConsumedTypedefs(call'.line, parser_state, p) :
                    /\ n \in Range(parser_state')
                    /\ parse_with_state(UseOf(n), parser_state').ok
          /\ call'.line = <<"typedef", " ", "int", " ", "foo", ";", " ",
                            "int", " ", "x", " ", "=", " ", "5">>
                => /\ "foo" \in Range(parser_state')
                   /\ parse_with_state(<<"foo", " ", "y">>, parser_state').ok
                   /\ parse_with_state(<<"foo", " ", "y">>, parser_state').decls
                         = <<Declaration(QualifiedType({}, Custom("foo")), Ident("y"))>>]_vars

\* C29 witness: the line "typedef int foo; int x = 5" failed in a session
\* that did not know foo, and foo is in the registry after it.
C29_Witness ==
    /\ call.op = "readline" /\ ~call.ok
    /\ call.line = <<"typedef", " ", "int", " ", "foo", ";", " ",
                     "int", " ", "x", " ", "=", " ", "5">>
    /\ "foo" \notin Range(call.before)
    /\ "foo" \in Range(parser_state)
    /\ Len(stderr) = 2

\* C30 as stated: the name of a typedef is registered only when its whole
\* declaration, parameters included, has been parsed: a typedef that uses its
\* own name as its base type or as the type of a parameter parses if and only
\* if the name was registered before it, and one that does not parse
\* registers nothing.
C30_OnlyWholeDeclaration ==
    walk.stage = "parsed" =>
        \A prefix \in SelfPrefixes, n \in SelfNames :
            \A form \in SelfForms(n) :
                walk.src = SelfTypedefSource(prefix, form) =>
                    /\ walk.r.ok <=> n \in Range(prefix.names)
                    /\ walk.r.ok =>
                          /\ walk.r.decls = Append(prefix.decls, form.decl)
                          /\ walk.r.state = Append(prefix.names, n)
                    /\ ~walk.r.ok => walk.r.state = prefix.names

====
